---- MODULE Spec2Model ----
(***************************************************************************)
(* Document intake, request assembly and response normalisation of the    *)
(* FNOL document processing application (src/app.py).                     *)
(*                                                                         *)
(* One submission is one call of process_files_accident or                *)
(* process_files_windshield by the UI.  The handlers run synchronously;   *)
(* pc is the position of the running handler.                             *)
(***************************************************************************)
EXTENDS Integers, Sequences, FiniteSets, TLC

VARIABLES
    pc,                 \* position of the running handler ("idle" between submissions,
                        \* "shown" while the UI shows a result to page through)
    flow,               \* which handler or function runs: "accident" | "windshield" |
                        \* "format" | "direct" | "identify" | "draw" | "navigate" | "none"
    individual_files,   \* argument: list of loose uploaded files
    zip_file,           \* argument: None or the uploaded archive
    all_images,         \* local all_images of the handler
    zip_images,         \* local images of process_zip_file
    temp_dir,           \* the TemporaryDirectory of process_zip_file
    walk_order,         \* order in which os.walk yielded the extracted files
    model_calls,        \* calls of gemini_client.models.generate_content in this submission
    request,            \* the last request handed to generate_content
    result,             \* local result of the handler (text returned by the processor)
    parsed_result,      \* local parsed_result of process_files_windshield; the JSON
                        \* argument of a direct call
    ws,                 \* locals of process_files_windshield computed from the reply;
                        \* the arguments of a call of navigate_extraction_tiles
    webhook_posts,      \* requests.post calls of this submission, in order
    ret,                \* value returned by the handler to the UI
    today,              \* the calendar day, counted from the day the process started
    current_date        \* the date text in WINDSHIELD_CLAIM_PROMPT

vars == <<pc, flow, individual_files, zip_file, all_images, zip_images, temp_dir,
          walk_order, model_calls, request, result, parsed_result, ws,
          webhook_posts, ret, today, current_date>>

-----------------------------------------------------------------------------
(* Bounds of the model *)

\* uploaded items of one submission: loose files plus archive entries
MaxItems == 3
\* pages of a multi-page PDF
MaxPages == 2

-----------------------------------------------------------------------------
(* Python values *)

None == [py |-> "None"]

Max(S) == CHOOSE m \in S : \A n \in S : n <= m

\* str.rfind(c), 1-based, 0 when absent
RFind(s, c) ==
    LET I == {i \in 1..Len(s) : s[i] = c}
    IN  IF I = {} THEN 0 ELSE Max(I)

\* str.lower() on the characters the model uses
LowerChar(c) ==
    CASE c = "B" -> "b" [] c = "D" -> "d" [] c = "F" -> "f" [] c = "G" -> "g"
      [] c = "J" -> "j" [] c = "P" -> "p" [] OTHER -> c

\* the mutant: a comparison that keeps the case of the extension
StrKeepCase(s) == s

StrLower(s) == [i \in 1..Len(s) |-> LowerChar(s[i])]

\* PurePath.name: the last component of the path
PathName(p) == SubSeq(p, RFind(p, "/") + 1, Len(p))

\* PurePath.suffix: from the last dot of the name, unless the name starts or
\* ends with that dot
PathSuffix(p) ==
    LET name == PathName(p)
        i    == RFind(name, ".")
    IN  IF 1 < i /\ i < Len(name) THEN SubSeq(name, i, Len(name)) ELSE <<>>

-----------------------------------------------------------------------------
(* Uploaded material.  A path is a sequence of characters.  The content of *)
(* a file decides what the libraries do with it:                           *)
(*   "image"     Image.open succeeds and the image can be saved as PNG     *)
(*   "lazy_bad"  Image.open succeeds (it reads the header only); decoding  *)
(*               or PNG encoding fails later (truncated data, CMYK)        *)
(*   "pdf"       pdfplumber opens it; it has `pages` pages                 *)
(*   "garbage"   neither Image.open nor pdfplumber can read it             *)
(* An archive member with crc_ok = FALSE makes extractall raise.           *)

File(name, content, pages) == [name |-> name, content |-> content, pages |-> pages]

LooseKinds ==
    { File(<<"a", ".", "p", "n", "g">>, "image", 0),
      File(<<"B", ".", "J", "P", "G">>, "lazy_bad", 0),
      File(<<"a", ".", "t", "x", "t">>, "garbage", 0),
      File(<<"b", ".", "p", "d", "f">>, "pdf", MaxPages),
      File(<<"c", ".", "P", "D", "F">>, "garbage", 0),
      File(<<".", "p", "n", "g">>, "image", 0) }

Entry(name, content, pages, crc) ==
    [name |-> name, content |-> content, pages |-> pages, crc_ok |-> crc]

EntryKinds ==
    { Entry(<<"x", ".", "j", "p", "e", "g">>, "image", 0, TRUE),
      Entry(<<"y", ".", "P", "d", "f">>, "pdf", MaxPages, TRUE),
      Entry(<<"z", ".", "t", "i", "f", "f">>, "garbage", 0, TRUE),
      Entry(<<"d", ".", "p", "n", "g", "/", "n">>, "image", 0, TRUE),
      Entry(<<"w", ".", "b", "m", "p">>, "image", 0, FALSE) }

SeqsUpTo(S, n) == UNION {[1..k -> S] : k \in 0..n}

\* an archive: readable = FALSE is a file zipfile.ZipFile cannot open
Archive(readable, entries) == [readable |-> readable, entries |-> entries]

Archives(n) ==
    {Archive(TRUE, es) : es \in SeqsUpTo(EntryKinds, n)} \cup {Archive(FALSE, <<>>)}

-----------------------------------------------------------------------------
(* Page images.  src names the file the image was produced from, page the  *)
(* page of a PDF (0 for an image file), savable whether img.save(PNG)      *)
(* succeeds, on_disk whether the image still reads its pixels from the     *)
(* file it was opened from (Image.open is lazy; pdfplumber renders in      *)
(* memory), size its (width, height) in pixels.                            *)

PageImage(src, page, savable, lazy) ==
    [src |-> src, page |-> page, savable |-> savable, on_disk |-> lazy,
     size |-> IF page = 0 THEN <<2000, 1000>> ELSE <<2480, 3508>>]

Raised(e) == [raised |-> TRUE, exc |-> e]
Returned(v) == [raised |-> FALSE, value |-> v]

\* PIL.Image.open(file_path)
ImageOpen(src, f) ==
    IF f.content \in {"image", "lazy_bad"}
    THEN Returned(PageImage(src, 0, f.content = "image", TRUE))
    ELSE Raised("UnidentifiedImageError")

\* the mutant: only the first page of the document is rendered
FirstPageOnly(src, f) ==
    IF f.content = "pdf"
    THEN Returned([k \in 1..(IF f.pages > 0 THEN 1 ELSE 0) |-> PageImage(src, k, TRUE, FALSE)])
    ELSE Raised("Failed to convert PDF to images")

convert_pdf_to_images(src, f) ==
    IF f.content = "pdf"
    THEN Returned([k \in 1..f.pages |-> PageImage(src, k, TRUE, FALSE)])
    ELSE Raised("Failed to convert PDF to images")

supported_image_formats ==
    { <<".", "p", "n", "g">>, <<".", "j", "p", "g">>, <<".", "j", "p", "e", "g">>,
      <<".", "b", "m", "p">>, <<".", "t", "i", "f", "f">> }

supported_document_formats == { <<".", "p", "d", "f">> }

\* the body of the loop of process_uploaded_files for one file
LoadOneFile(images, src, f) ==
    LET file_ext == StrLower(PathSuffix(f.name))
    IN  IF file_ext \in supported_image_formats
        THEN LET r == ImageOpen(src, f)
             IN  IF r.raised THEN images ELSE Append(images, r.value)
        ELSE IF file_ext \in supported_document_formats
        THEN LET r == convert_pdf_to_images(src, f)
             IN  IF r.raised THEN images ELSE images \o r.value
        ELSE images

RECURSIVE LoadFiles(_, _, _)
LoadFiles(files, i, images) ==
    IF i > Len(files) THEN images
    ELSE IF files[i] = None THEN LoadFiles(files, i + 1, images)
    ELSE LoadFiles(files, i + 1, LoadOneFile(images, <<"loose", i>>, files[i]))

process_uploaded_files(files) ==
    IF files = <<>> THEN <<>> ELSE LoadFiles(files, 1, <<>>)

-----------------------------------------------------------------------------
(* process_zip_file.  temp_dir.exists says whether the temporary directory *)
(* exists; temp_dir.files is the set of archive members extracted into it  *)
(* (by position in the archive).                                           *)

NoTempDir == [exists |-> FALSE, files |-> {}]

\* ZipFile.extractall: members are written in archive order; the first
\* member that cannot be read raises and leaves the earlier ones on disk
ExtractAll(archive) ==
    LET bad == {i \in 1..Len(archive.entries) : ~archive.entries[i].crc_ok}
    IN  IF bad = {}
        THEN Returned(1..Len(archive.entries))
        ELSE [raised |-> TRUE, exc |-> "BadZipFile",
              value |-> {i \in 1..Len(archive.entries) : \A b \in bad : i < b}]

\* directory depth of an extracted member
Depth(p) == Cardinality({i \in 1..Len(p) : p[i] = "/"})

Orderings(S) ==
    {s \in [1..Cardinality(S) -> S] : \A i, j \in 1..Cardinality(S) : s[i] = s[j] => i = j}

\* os.walk is top-down: the files of a directory come before those of its
\* sub-directories; the order within a directory is the file system's
WalkOrders(archive, files) ==
    {s \in Orderings(files) :
        \A i, j \in 1..Len(s) :
            i < j => Depth(archive.entries[s[i]].name) <= Depth(archive.entries[s[j]].name)}

\* the body of the loop over the extracted files
WalkOneFile(images, src, f) ==
    LET file_ext == StrLower(PathSuffix(f.name))
    IN  IF file_ext \in supported_image_formats
        THEN LET r == ImageOpen(src, f)
             IN  IF r.raised THEN images ELSE Append(images, r.value)
        ELSE IF file_ext \in supported_document_formats
        THEN LET r == convert_pdf_to_images(src, f)
             IN  IF r.raised THEN images ELSE images \o r.value
        ELSE images

RECURSIVE WalkFiles(_, _, _, _)
WalkFiles(archive, order, i, images) ==
    IF i > Len(order) THEN images
    ELSE WalkFiles(archive, order, i + 1,
                   WalkOneFile(images, <<"zip", order[i]>>, archive.entries[order[i]]))

-----------------------------------------------------------------------------
(* Texts and JSON.  A text is the sequence of its fragments (an f-string   *)
(* is the concatenation of its pieces) together with the JSON document it  *)
(* denotes, NotJson when json.loads rejects it.  A JSON object keeps the   *)
(* order of its keys, as a Python dict does.                               *)

NotJson == [t |-> "invalid"]
JNull == [t |-> "null"]
JNum(n) == [t |-> "number", n |-> n]
JStr(s) == [t |-> "string", s |-> s]
JBool(b) == [t |-> "bool", b |-> b]
JArr(a) == [t |-> "array", a |-> a]
JObj(o) == [t |-> "object", o |-> o]
KV(k, v) == [k |-> k, v |-> v]
EmptyDict == JObj(<<>>)

Text(s) == [parts |-> <<s>>, doc |-> NotJson]
JsonText(s, doc) == [parts |-> <<s>>, doc |-> doc]
\* f"{prefix}{text}" for a prefix that does not start a JSON document
Prefixed(prefix, text) == [parts |-> <<prefix>> \o text.parts, doc |-> NotJson]

\* json.loads(text)
JsonLoads(text) ==
    IF text.doc = NotJson THEN Raised("JSONDecodeError") ELSE Returned(text.doc)

IsDict(v) == v.t = "object"
\* key in d, for a dict d
HasKey(d, k) == \E i \in 1..Len(d.o) : d.o[i].k = k
\* d[key], for a dict d that has the key
Item(d, k) == d.o[CHOOSE i \in 1..Len(d.o) : d.o[i].k = k].v
\* the mutant: a key that is absent reads as null
DictGetOrNull(d, k, default) == IF HasKey(d, k) THEN Item(d, k) ELSE JNull

\* d.get(key, default), for a dict d
DictGet(d, k, default) == IF HasKey(d, k) THEN Item(d, k) ELSE default

-----------------------------------------------------------------------------
(* The request assembler *)

MASTER_PROMPT == [template |-> "MASTER_PROMPT"]

\* the mutant: the date in the template is the day of the request
PromptOfToday == [template |-> "WINDSHIELD_CLAIM_PROMPT", current_date |-> today]

\* an f-string evaluated when the module is loaded: its date text is fixed
WINDSHIELD_CLAIM_PROMPT == [template |-> "WINDSHIELD_CLAIM_PROMPT", current_date |-> current_date]

\* types.Part.from_bytes(data = PNG bytes of the image, mime_type = "image/png")
Part(img) == [mime_type |-> "image/png", data |-> <<img.src, img.page>>]

\* the mutant: the parts are built in reverse order
PartsReversed(images) ==
    IF \E i \in 1..Len(images) : ~images[i].savable
    THEN Raised("OSError")
    ELSE Returned([i \in 1..Len(images) |-> Part(images[Len(images) + 1 - i])])

\* img.save raises for an image that cannot be decoded or written as PNG
images_to_gemini_parts(images) ==
    IF \E i \in 1..Len(images) : ~images[i].savable
    THEN Raised("OSError")
    ELSE Returned([i \in 1..Len(images) |-> Part(images[i])])

GeminiError(e) == Prefixed("Error processing with Gemini: ", Text(e))

\* What one call of process_documents_with_gemini does: the text it returns,
\* the number of generate_content calls it makes and the request it sends.
\* api is what generate_content does when called: Raised(e) or Returned(text).
Processed(text, calls, req) ==
    [raised |-> FALSE, text |-> text, calls |-> calls, request |-> req]

\* the mutant: the exception of a failed call leaves the method
GeminiPropagating(images, flow_type, api) ==
    IF images = <<>> THEN Processed(Text("No images to process"), 0, None)
    ELSE LET enc == images_to_gemini_parts(images)
             prompt == IF flow_type = "windshield" THEN WINDSHIELD_CLAIM_PROMPT ELSE MASTER_PROMPT
             req == [model |-> "gemini-2.5-pro", contents |-> enc.value,
                     system_instruction |-> prompt]
         IN  IF enc.raised THEN Processed(GeminiError(enc.exc), 0, None)
             ELSE IF api.raised
             THEN [raised |-> TRUE, exc |-> api.exc, text |-> None, calls |-> 1, request |-> req]
             ELSE Processed(api.value, 1, req)

\* the mutant: the model is called even when there is no image
GeminiWithoutGuard(images, flow_type, api) ==
    LET enc == images_to_gemini_parts(images)
        prompt == IF flow_type = "windshield" THEN WINDSHIELD_CLAIM_PROMPT ELSE MASTER_PROMPT
        req == [model |-> "gemini-2.5-pro", contents |-> enc.value,
                system_instruction |-> prompt]
    IN  IF enc.raised THEN Processed(GeminiError(enc.exc), 0, None)
        ELSE IF api.raised THEN Processed(GeminiError(api.exc), 1, req)
        ELSE Processed(api.value, 1, req)

\* the mutant: every call is made with the accident template
GeminiOnePrompt(images, flow_type, api) ==
    IF images = <<>> THEN Processed(Text("No images to process"), 0, None)
    ELSE LET enc == images_to_gemini_parts(images)
             req == [model |-> "gemini-2.5-pro", contents |-> enc.value,
                     system_instruction |-> MASTER_PROMPT]
         IN  IF enc.raised THEN Processed(GeminiError(enc.exc), 0, None)
             ELSE IF api.raised THEN Processed(GeminiError(api.exc), 1, req)
             ELSE Processed(api.value, 1, req)

process_documents_with_gemini(images, flow_type, api) ==
    IF images = <<>> THEN Processed(Text("No images to process"), 0, None)
    ELSE LET enc == images_to_gemini_parts(images)
             prompt == IF flow_type = "windshield" THEN WINDSHIELD_CLAIM_PROMPT ELSE MASTER_PROMPT
             req == [model |-> "gemini-2.5-pro", contents |-> enc.value,
                     system_instruction |-> prompt]
         IN  IF enc.raised THEN Processed(GeminiError(enc.exc), 0, None)
             ELSE IF api.raised THEN Processed(GeminiError(api.exc), 1, req)
             ELSE Processed(api.value, 1, req)

-----------------------------------------------------------------------------
(* The logging side channel *)

WebhookOutcomes == {"200", "500", "timeout"}

\* send_webhook_log: one requests.post; whatever it does is caught
send_webhook_log(posts, flow_type, username, result_data, outcome) ==
    Append(posts, [flow_type |-> flow_type, user |-> username,
                   results |-> result_data, outcome |-> outcome])

-----------------------------------------------------------------------------
(* The presentation renderer.  A rendered panel is kept as the facts the   *)
(* handlers and the navigation depend on, not as its HTML text.            *)

Html(panel, error) == [panel |-> panel, error |-> error]

\* bool(v) of a parsed JSON value
Truthy(v) ==
    CASE v.t = "null" -> FALSE
      [] v.t = "bool" -> v.b
      [] v.t = "number" -> v.n # 0
      [] v.t = "string" -> v.s # ""
      [] v.t = "array" -> v.a # <<>>
      [] v.t = "object" -> v.o # <<>>

\* key in v: a dict tests its keys, a list its elements, a string its
\* substrings (a model string contains only itself); anything else raises
Contains(v, key) ==
    CASE v.t = "object" -> Returned(HasKey(v, key))
      [] v.t = "array" -> Returned(\E i \in 1..Len(v.a) : v.a[i] = JStr(key))
      [] v.t = "string" -> Returned(v.s = key)
      [] OTHER -> Raised("TypeError")

create_windshield_checklist_display(checklist_data) ==
    IF ~IsDict(checklist_data) THEN Html("checklist", TRUE)
    ELSE IF ~IsDict(DictGet(checklist_data, "checklist", EmptyDict)) THEN Html("checklist", TRUE)
    ELSE Html("checklist", FALSE)

section_mapping ==
    <<"civilId", "driversLicense", "vehicleRegistration", "repairOrder", "photographicEvidence">>

Tiles(html, index, total) == [html |-> html, index |-> index, total |-> total]

Min2(a, b) == IF a < b THEN a ELSE b
Max2(a, b) == IF a > b THEN a ELSE b

\* the mutant: the index is used as given; one outside the sections raises
\* IndexError, which the except turns into the error panel
TilesWithoutClamp(extracted_data, current_index) ==
    LET present == [i \in 1..Len(section_mapping) |-> Contains(extracted_data, section_mapping[i])]
        failed  == \E i \in 1..Len(section_mapping) :
                       \/ present[i].raised
                       \/ ~present[i].raised /\ present[i].value /\ ~IsDict(extracted_data)
        names   == SelectSeq(section_mapping, LAMBDA k : HasKey(extracted_data, k))
    IN  IF failed THEN Tiles(Html("extraction", TRUE), 0, 0)
        ELSE IF ~IsDict(extracted_data) \/ names = <<>>
        THEN Tiles(Html("no extraction data", FALSE), 0, 0)
        ELSE IF current_index < -Len(names) \/ current_index >= Len(names)
        THEN Tiles(Html("extraction", TRUE), 0, 0)
        ELSE LET idx == IF current_index >= 0 THEN current_index ELSE Len(names) + current_index
             IN  Tiles([panel |-> "extraction", error |-> FALSE, section |-> names[idx + 1]],
                       current_index, Len(names))

\* the mutant: the sections come in the order of the keys of the reply
TilesInReplyOrder(extracted_data, current_index) ==
    LET present == [i \in 1..Len(section_mapping) |-> Contains(extracted_data, section_mapping[i])]
        failed  == \E i \in 1..Len(section_mapping) :
                       \/ present[i].raised
                       \/ ~present[i].raised /\ present[i].value /\ ~IsDict(extracted_data)
        found   == SelectSeq(extracted_data.o,
                             LAMBDA e : \E i \in 1..Len(section_mapping) : e.k = section_mapping[i])
        names   == [i \in 1..Len(found) |-> found[i].k]
    IN  IF failed THEN Tiles(Html("extraction", TRUE), 0, 0)
        ELSE IF ~IsDict(extracted_data) \/ names = <<>>
        THEN Tiles(Html("no extraction data", FALSE), 0, 0)
        ELSE LET idx == Max2(0, Min2(current_index, Len(names) - 1))
             IN  Tiles([panel |-> "extraction", error |-> FALSE, section |-> names[idx + 1]],
                       idx, Len(names))

create_extraction_tiles(extracted_data, current_index) ==
    LET present == [i \in 1..Len(section_mapping) |-> Contains(extracted_data, section_mapping[i])]
        failed  == \E i \in 1..Len(section_mapping) :
                       \/ present[i].raised
                       \/ ~present[i].raised /\ present[i].value /\ ~IsDict(extracted_data)
        names   == SelectSeq(section_mapping, LAMBDA k : HasKey(extracted_data, k))
    IN  IF failed THEN Tiles(Html("extraction", TRUE), 0, 0)
        ELSE IF ~IsDict(extracted_data) \/ names = <<>>
        THEN Tiles(Html("no extraction data", FALSE), 0, 0)
        ELSE LET idx == Max2(0, Min2(current_index, Len(names) - 1))
             IN  Tiles([panel |-> "extraction", error |-> FALSE, section |-> names[idx + 1]],
                       idx, Len(names))

create_validation_display(consistency_analysis) ==
    IF ~IsDict(consistency_analysis) THEN Html("validation", TRUE)
    ELSE LET status == DictGet(consistency_analysis, "overallValidationStatus", JStr("UNKNOWN"))
             checks == DictGet(consistency_analysis, "checks", JArr(<<>>))
         IN  IF status.t \in {"array", "object"} THEN Html("validation", TRUE)
             ELSE IF checks.t \in {"null", "number", "bool"} THEN Html("validation", TRUE)
             ELSE IF checks.t = "array" /\ \E i \in 1..Len(checks.a) : ~IsDict(checks.a[i])
             THEN Html("validation", TRUE)
             ELSE IF checks.t \in {"string", "object"} /\ Truthy(checks) THEN Html("validation", TRUE)
             ELSE Html("validation", FALSE)

RECURSIVE Pow2(_)
Pow2(e) == IF e = 0 THEN 1 ELSE 2 * Pow2(e - 1)

\* 2^e mod m
RECURSIVE Pow2Mod(_, _)
Pow2Mod(e, m) == IF e = 0 THEN 1 % m ELSE (2 * Pow2Mod(e - 1, m)) % m

\* floor(log2(k)), for k >= 1
RECURSIVE Log2Floor(_)
Log2Floor(k) == IF k < 2 THEN 0 ELSE 1 + Log2Floor(k \div 2)

\* the u >= 0 with 2^-u <= n / 1000 < 2^(1-u), for 1 <= n <= 1000
RECURSIVE BinaryShift(_)
BinaryShift(n) == IF n >= 1000 THEN 0 ELSE 1 + BinaryShift(2 * n)

\* the mutant: the scaling done in exact arithmetic
PixelExact(normalized, dimension) == (normalized * dimension) \div 1000

\* int((normalized / 1000.0) * dimension), for 0 <= normalized <= 1000 and a
\* dimension >= 1, in IEEE 754 double arithmetic (round to nearest, ties to
\* even).  normalized / 1000.0 is the quotient rounded to 53 significant
\* bits; r is the remainder the rounding leaves, r = normalized * 2^(52+u)
\* mod 1000 (never 500).  The product can end below an integer only when the
\* exact value is that integer, the quotient was rounded down (0 < 2r < 1000)
\* and the error it carries into the product, r * dimension * 2^(-52-u) / 1000,
\* exceeds half the distance from the integer to the double before it,
\* 2^(j-53) (2^(j-54) for a power of two), j = floor(log2(exact)); int() then
\* truncates to exact - 1.
Pixel(normalized, dimension) ==
    LET exact == (normalized * dimension) \div 1000
        u     == BinaryShift(normalized)
        r     == (normalized * Pow2Mod(52 + u, 1000)) % 1000
        j     == Log2Floor(exact)
        half  == j + u - 1 - (IF exact = Pow2(j) THEN 1 ELSE 0)
        below == IF half >= 0 THEN r * dimension > 1000 * Pow2(half)
                 ELSE r * dimension * Pow2(-half) > 1000
    IN  IF normalized * dimension = 0 \/ (normalized * dimension) % 1000 # 0 THEN exact
        ELSE IF r = 0 \/ 2 * r > 1000 THEN exact
        ELSE IF below THEN exact - 1
        ELSE exact

\* an image as displayed: the page image it shows and the rectangle drawn on
\* the displayed copy (None when nothing was drawn)
Shown(img, rectangle) == [image |-> img, rectangle |-> rectangle]

draw_bounding_box_on_image(image, box_coords) ==
    IF Len(box_coords) # 4 \/ \E i \in 1..Len(box_coords) : box_coords[i].t # "number"
    THEN Shown(image, None)
    ELSE LET ymin == box_coords[1].n
             xmin == box_coords[2].n
             ymax == box_coords[3].n
             xmax == box_coords[4].n
         IN  Shown(image, [x1 |-> Pixel(xmin, image.size[1]), y1 |-> Pixel(ymin, image.size[2]),
                           x2 |-> Pixel(xmax, image.size[1]), y2 |-> Pixel(ymax, image.size[2])])

\* the mutant: the rectangle is drawn on the image itself
ImageDrawnOn(image, shown) == shown

\* the image handed to draw_bounding_box_on_image, after the call: the
\* rectangle and the label are drawn on img_with_box, a copy (566-573)
ImageAfterDraw(image, shown) == image

\* the page images after the overlay of lines 927-939; damage_image is None
\* when draw_bounding_box_on_image was not called
PagesAfterOverlay(images, damage_image) ==
    [i \in 1..Len(images) |->
        IF damage_image # None /\ damage_image.image = images[i]
        THEN ImageAfterDraw(images[i], damage_image)
        ELSE images[i]]

\* lines 927-939 of process_files_windshield: Returned(damage_image) or the
\* exception that escapes to the handler's outer except
DamageImage(extracted_data, images) ==
    IF ~IsDict(extracted_data) THEN Raised("AttributeError")
    ELSE LET photographic_evidence == DictGet(extracted_data, "photographicEvidence", EmptyDict)
         IN  IF ~IsDict(photographic_evidence) THEN Raised("AttributeError")
             ELSE LET damage_location == DictGet(photographic_evidence, "damageLocation", EmptyDict)
                  IN  IF ~Truthy(damage_location) THEN Returned(None)
                      ELSE IF Contains(damage_location, "imageIndex").raised THEN Raised("TypeError")
                      ELSE IF ~Contains(damage_location, "imageIndex").value THEN Returned(None)
                      ELSE IF ~Contains(damage_location, "box_2d").value THEN Returned(None)
                      ELSE IF ~IsDict(damage_location) THEN Returned(None)
                      ELSE LET image_index == Item(damage_location, "imageIndex")
                               box_coords  == Item(damage_location, "box_2d")
                           IN  IF box_coords.t # "array" \/ Len(box_coords.a) # 4 THEN Returned(None)
                               ELSE IF image_index.t \notin {"number", "bool"} THEN Returned(None)
                               ELSE LET n == IF image_index.t = "number" THEN image_index.n
                                             ELSE IF image_index.b THEN 1 ELSE 0
                                        i == IF n >= 0 THEN n + 1 ELSE Len(images) + n + 1
                                    IN  IF ~(n < Len(images)) THEN Returned(None)
                                        ELSE IF n < -Len(images) THEN Returned(None)
                                        ELSE Returned(draw_bounding_box_on_image(images[i], box_coords.a))

-----------------------------------------------------------------------------
(* The accident response normaliser *)

\* the mutant: a police report is recognised only with its keys in one order
IdentifyInKeyOrder(doc_data) ==
    IF /\ HasKey(doc_data, "report_header") /\ HasKey(doc_data, "first_party")
       /\ (CHOOSE i \in 1..Len(doc_data.o) : doc_data.o[i].k = "report_header")
          < (CHOOSE i \in 1..Len(doc_data.o) : doc_data.o[i].k = "first_party")
    THEN "Police Report (Form 1)"
    ELSE IF HasKey(doc_data, "violator_information") /\ HasKey(doc_data, "violation_description")
    THEN "Acceptance of Reconciliation (Form 2)"
    ELSE IF HasKey(doc_data, "involved_vehicles") /\ HasKey(doc_data, "authorizing_officer")
    THEN "Traffic Accident Notification (Form 3)"
    ELSE IF HasKey(doc_data, "issuing_company") /\ HasKey(doc_data, "policy_summary")
    THEN "Insurance Policy (Form 4)"
    ELSE IF HasKey(doc_data, "vehicle_and_driver") /\ HasKey(doc_data, "damage_description")
    THEN "Hit and Run Report (Form 5)"
    ELSE "Unknown Document Type"

\* the mutant: one key of the pair is enough for a traffic accident notification
IdentifyByEitherKey(doc_data) ==
    IF HasKey(doc_data, "report_header") /\ HasKey(doc_data, "first_party")
    THEN "Police Report (Form 1)"
    ELSE IF HasKey(doc_data, "violator_information") /\ HasKey(doc_data, "violation_description")
    THEN "Acceptance of Reconciliation (Form 2)"
    ELSE IF HasKey(doc_data, "involved_vehicles") \/ HasKey(doc_data, "authorizing_officer")
    THEN "Traffic Accident Notification (Form 3)"
    ELSE IF HasKey(doc_data, "issuing_company") /\ HasKey(doc_data, "policy_summary")
    THEN "Insurance Policy (Form 4)"
    ELSE IF HasKey(doc_data, "vehicle_and_driver") /\ HasKey(doc_data, "damage_description")
    THEN "Hit and Run Report (Form 5)"
    ELSE "Unknown Document Type"

identify_document_type(doc_data) ==
    IF HasKey(doc_data, "report_header") /\ HasKey(doc_data, "first_party")
    THEN "Police Report (Form 1)"
    ELSE IF HasKey(doc_data, "violator_information") /\ HasKey(doc_data, "violation_description")
    THEN "Acceptance of Reconciliation (Form 2)"
    ELSE IF HasKey(doc_data, "involved_vehicles") /\ HasKey(doc_data, "authorizing_officer")
    THEN "Traffic Accident Notification (Form 3)"
    ELSE IF HasKey(doc_data, "issuing_company") /\ HasKey(doc_data, "policy_summary")
    THEN "Insurance Policy (Form 4)"
    ELSE IF HasKey(doc_data, "vehicle_and_driver") /\ HasKey(doc_data, "damage_description")
    THEN "Hit and Run Report (Form 5)"
    ELSE "Unknown Document Type"

\* json.dumps(value, indent = 2, ensure_ascii = False): the document laid out anew
JsonDumps(doc) == [parts |-> <<"json.dumps">>, doc |-> doc]

ErrorPrefixes ==
    {"Error", "Error: ", "Error processing with Gemini: ", "Error parsing result: "}

\* text.startswith("Error")
StartsWithError(text) == text.parts[1] \in ErrorPrefixes

\* not text
IsEmptyText(text) == text = None \/ text.parts = <<"">>

Formatted(complete, documents, validation_summary) ==
    [complete |-> complete, documents |-> documents, validation_summary |-> validation_summary]

\* the mutant: a reply that does not parse is replaced by an empty text
FormatDroppingText(json_result) ==
    IF IsEmptyText(json_result) \/ StartsWithError(json_result)
    THEN Returned(Formatted(json_result, <<>>, Text("")))
    ELSE Returned(Formatted(Text(""), <<>>, Text("")))

\* the mutant: the validation summary is also listed as a document
FormatCountingSummary(json_result) ==
    IF IsEmptyText(json_result) \/ StartsWithError(json_result)
    THEN Returned(Formatted(json_result, <<>>, Text("")))
    ELSE LET p == JsonLoads(json_result)
         IN  IF p.raised THEN Returned(Formatted(json_result, <<>>, Text("")))
             ELSE IF ~IsDict(p.value) THEN Returned(Formatted(JsonDumps(p.value), <<>>, Text("")))
             ELSE LET docs == SelectSeq(p.value.o, LAMBDA e : IsDict(e.v))
                  IN  Returned(Formatted(
                          JsonDumps(p.value),
                          [i \in 1..Len(docs) |->
                              [key |-> docs[i].k,
                               type |-> identify_document_type(docs[i].v),
                               content |-> JsonDumps(docs[i].v)]],
                          IF HasKey(p.value, "validation_summary")
                          THEN JsonDumps(Item(p.value, "validation_summary"))
                          ELSE Text("")))

parse_and_format_json(json_result) ==
    IF IsEmptyText(json_result) \/ StartsWithError(json_result)
    THEN Returned(Formatted(json_result, <<>>, Text("")))
    ELSE LET p == JsonLoads(json_result)
         IN  IF p.raised THEN Returned(Formatted(json_result, <<>>, Text("")))
             ELSE IF ~IsDict(p.value) THEN Returned(Formatted(JsonDumps(p.value), <<>>, Text("")))
             ELSE LET parsed_json_docs == SelectSeq(p.value.o, LAMBDA e : e.k # "validation_summary")
                      docs == SelectSeq(parsed_json_docs, LAMBDA e : IsDict(e.v))
                  IN  Returned(Formatted(
                          JsonDumps(p.value),
                          [i \in 1..Len(docs) |->
                              [key |-> docs[i].k,
                               type |-> identify_document_type(docs[i].v),
                               content |-> JsonDumps(docs[i].v)]],
                          IF HasKey(p.value, "validation_summary")
                          THEN JsonDumps(Item(p.value, "validation_summary"))
                          ELSE Text("")))

-----------------------------------------------------------------------------
(* What the external model answers *)

FullReply ==
    JObj(<< KV("documentChecklist", JObj(<<KV("checklist", EmptyDict)>>)),
            KV("extractedData",
               JObj(<< KV("civilId", EmptyDict),
                       KV("photographicEvidence",
                          JObj(<<KV("damageLocation",
                                    JObj(<< KV("box_2d", JArr(<<JNum(100), JNum(200), JNum(300), JNum(400)>>)),
                                            KV("imageIndex", JNum(0)) >>))>>)) >>)),
            KV("consistencyAnalysis", JObj(<<KV("overallValidationStatus", JStr("VALID"))>>)) >>)

Replies ==
    { Text("I cannot read these documents"),
      JsonText("{}", EmptyDict),
      JsonText("[]", JArr(<<>>)),
      JsonText("{...}", FullReply) }

\* what makes generate_content raise: the service, the quota
ApiErrors == {"503 UNAVAILABLE", "429 RESOURCE_EXHAUSTED"}

ApiOutcomes == {Raised(e) : e \in ApiErrors} \cup {Returned(r) : r \in Replies}

\* a key the reply does not have
Absent == [t |-> "absent"]
\* the object with the given members, without those that are absent
ObjectOf(pairs) == JObj(SelectSeq(pairs, LAMBDA e : e.v # Absent))

\* largest magnitude of an imageIndex in a reply
MaxIndex == 3

\* box_2d: [100, 200, ...] of arity 3, 4 and 5, a list that holds no numbers, null
BoxOfArity(n) == JArr([i \in 1..n |-> JNum(100 * i)])
Boxes ==
    {BoxOfArity(n) : n \in {3, 4, 5}} \cup {JNull, JArr([i \in 1..4 |-> JStr("a")])}

Indices == {JNum(i) : i \in -MaxIndex..MaxIndex} \cup {JNull, JStr("0"), JBool(TRUE)}

DamageLocations ==
    {Absent, JNull, EmptyDict, JArr(<<>>), JStr("imageIndex"), JNum(5)}
    \cup {ObjectOf(<<KV("box_2d", b), KV("imageIndex", i)>>) :
              b \in Boxes \cup {Absent}, i \in Indices \cup {Absent}}

Evidences ==
    {Absent, JNull, JArr(<<>>)}
    \cup {ObjectOf(<<KV("damageDescription", JStr("crack")), KV("damageLocation", dl)>>) :
              dl \in DamageLocations}

ExtractedDatas ==
    {Absent, JNull, JArr(<<JStr("civilId")>>)}
    \cup {ObjectOf(<<KV("civilId", EmptyDict), KV("photographicEvidence", pe)>>) :
              pe \in Evidences}

Checklists ==
    {Absent, JNull, JObj(<<KV("checklist", JObj(<<KV("civilIdFront", JBool(TRUE))>>))>>)}

Analyses ==
    {Absent, JNull,
     JObj(<<KV("overallValidationStatus", JStr("VALID")), KV("checks", JArr(<<>>))>>)}

\* what a windshield reply can denote: any JSON value at the top level, and
\* an object with any of its sections absent, null or of another type
WindshieldDocs ==
    {JNull, JNum(7), JStr("ok"), JBool(TRUE), JArr(<<>>)}
    \cup {ObjectOf(<<KV("documentChecklist", c), KV("extractedData", e),
                     KV("consistencyAnalysis", a)>>) :
              c \in Checklists, e \in ExtractedDatas, a \in Analyses}

WindshieldReplies ==
    {JsonText("reply", d) : d \in WindshieldDocs} \cup {Text("I cannot read these documents")}

WindshieldOutcomes ==
    {Returned(r) : r \in WindshieldReplies} \cup {Raised("503 UNAVAILABLE")}

\* sequences of at most n elements of S, without repetition
DistinctSeqs(S, n) ==
    {q \in SeqsUpTo(S, n) : \A i, j \in 1..Len(q) : q[i] = q[j] => i = j}

\* top-level keys of an accident reply
MaxDocuments == 3

PoliceReport == JObj(<<KV("report_header", EmptyDict), KV("first_party", EmptyDict)>>)
InsurancePolicy == JObj(<<KV("issuing_company", EmptyDict), KV("policy_summary", EmptyDict)>>)

\* an accident reply that is an object: documents, the validation summary and
\* members that are not objects, in any order
AccidentDocs ==
    {JObj([i \in 1..Len(ks) |-> KV(ks[i], vs[i])]) :
        <<ks, vs>> \in
            {kv \in DistinctSeqs({"police_report", "insurance_policy", "validation_summary", "notes"},
                                 MaxDocuments)
                    \X SeqsUpTo({PoliceReport, InsurancePolicy, JStr("text"), JArr(<<>>), JNull},
                                MaxDocuments) :
                Len(kv[1]) = Len(kv[2])}}

FormatInputs ==
    Replies \cup {Text(""), Prefixed("Error: ", Text("upstream")), GeminiError("503 UNAVAILABLE")}
    \cup {JsonText("reply", d) : d \in AccidentDocs}

\* keys of a document object
MaxKeys == 4

\* the keys the classification looks at, and one it does not
DocKeys ==
    {"report_header", "first_party", "violator_information", "violation_description",
     "involved_vehicles", "authorizing_officer", "issuing_company", "policy_summary",
     "vehicle_and_driver", "damage_description", "report_details"}

\* the top-level keys of the five document formats of MASTER_PROMPT
DocumentSchemas ==
    << <<"report_header", "report_details", "first_party", "second_party",
         "additional_information">>,
       <<"issuing_authority", "form_details", "violator_information", "case_details",
         "violation_description", "violator_acknowledgement", "official_seal", "footer_code">>,
       <<"form_details", "report_details", "involved_vehicles", "authorizing_officer",
         "official_seal", "footer_code">>,
       <<"issuing_company", "document_title", "policy_summary", "policy_period",
         "policy_holder", "vehicle_details", "coverage_details", "premium_details",
         "signature", "footer_info">>,
       <<"issuing_authority", "report_details", "vehicle_and_driver", "damage_description",
         "general_instructions", "authorizing_officer", "official_seal", "footer_info">> >>

\* a document in each of the five formats
SchemaDocs ==
    {JObj([i \in 1..Len(DocumentSchemas[n]) |-> KV(DocumentSchemas[n][i], EmptyDict)]) :
        n \in 1..Len(DocumentSchemas)}

DocInputs ==
    {JObj([i \in 1..Len(ks) |-> KV(ks[i], EmptyDict)]) : ks \in DistinctSeqs(DocKeys, MaxKeys)}
    \cup SchemaDocs

\* image sizes (width, height) and arguments box_coords of a direct call of
\* draw_bounding_box_on_image
ImageSizes == {<<2000, 1000>>, <<800, 600>>}
BoxInputs ==
    {<<JNum(b[1]), JNum(b[2]), JNum(b[3]), JNum(b[4])>> :
        b \in {100, 145, 200, 300, 400, 1000} \X {100, 145, 200, 300, 400, 1000}
              \X {100, 145, 200, 300, 400, 1000} \X {100, 145, 200, 300, 400, 1000}}
    \cup {BoxOfArity(3).a, BoxOfArity(5).a, [i \in 1..4 |-> JStr("a")]}

-----------------------------------------------------------------------------
(* The state machine *)

NoReturn == [returned |-> FALSE]
Return(v) == [returned |-> TRUE, value |-> v]

Gallery(images) == [list |-> images]

Uploads ==
    {<<files, zip>> \in SeqsUpTo(LooseKinds, MaxItems) \X ({None} \cup Archives(MaxItems)) :
        Len(files) + (IF zip = None THEN 0 ELSE Len(zip.entries)) <= MaxItems}

Init ==
    /\ pc = "idle"
    /\ flow = "none"
    /\ individual_files = <<>>
    /\ zip_file = None
    /\ all_images = <<>>
    /\ zip_images = <<>>
    /\ temp_dir = NoTempDir
    /\ walk_order = <<>>
    /\ model_calls = 0
    /\ request = None
    /\ result = None
    /\ parsed_result = None
    /\ ws = None
    /\ webhook_posts = <<>>
    /\ ret = NoReturn
    /\ today = 1
    /\ current_date = today

\* a call starts with fresh locals
Enter(kind, files, zip) ==
    /\ pc = "idle"
    /\ temp_dir' = temp_dir
    /\ flow' = kind
    /\ individual_files' = files
    /\ zip_file' = zip
    /\ zip_images' = <<>>
    /\ walk_order' = <<>>
    /\ parsed_result' = None
    /\ ws' = None
    /\ webhook_posts' = <<>>
    /\ UNCHANGED <<today, current_date>>

\* accident_process_btn.click
SubmitAccident ==
    /\ pc = "idle"
    /\ \E u \in Uploads :
        /\ Enter("accident", u[1], u[2])
        /\ all_images' = <<>> /\ model_calls' = 0 /\ request' = None
        /\ result' = None /\ ret' = NoReturn /\ pc' = "gather"

\* windshield_process_btn.click
SubmitWindshield ==
    /\ pc = "idle"
    /\ \E u \in Uploads :
        /\ Enter("windshield", u[1], u[2])
        /\ all_images' = <<>> /\ model_calls' = 0 /\ request' = None
        /\ result' = None /\ ret' = NoReturn /\ pc' = "gather"

\* the loose files, then the call of process_zip_file when there is an archive
Gather ==
    /\ pc = "gather"
    /\ all_images' = IF individual_files # <<>>
                     THEN all_images \o process_uploaded_files(individual_files)
                     ELSE all_images
    /\ pc' = IF zip_file # None THEN "zip_call" ELSE "check"
    /\ UNCHANGED <<today, current_date, flow, individual_files, zip_file, zip_images, temp_dir, walk_order,
                   model_calls, request, result, parsed_result, ws, webhook_posts, ret>>

AccidentGather == flow = "accident" /\ Gather

WindshieldGather == flow = "windshield" /\ Gather

\* process_zip_file, up to the creation of the temporary directory
ZipEnter ==
    /\ pc = "zip_call"
    /\ zip_images' = <<>>
    /\ IF zip_file = None
       THEN pc' = "zip_return" /\ temp_dir' = temp_dir
       ELSE pc' = "zip_extract" /\ temp_dir' = [exists |-> TRUE, files |-> {}]
    /\ UNCHANGED <<today, current_date, flow, individual_files, zip_file, all_images, walk_order,
                   model_calls, request, result, parsed_result, ws, webhook_posts, ret>>

\* zipfile.ZipFile(...) and extractall; whatever they raise is caught and printed
ZipExtract ==
    /\ pc = "zip_extract"
    /\ IF ~zip_file.readable
       THEN pc' = "zip_exit" /\ temp_dir' = temp_dir
       ELSE LET x == ExtractAll(zip_file)
            IN  /\ temp_dir' = [exists |-> TRUE, files |-> x.value]
                /\ pc' = IF x.raised THEN "zip_exit" ELSE "zip_walk"
    /\ UNCHANGED <<today, current_date, flow, individual_files, zip_file, all_images, zip_images, walk_order,
                   model_calls, request, result, parsed_result, ws, webhook_posts, ret>>

\* the walk over the extracted files
ZipWalk ==
    /\ pc = "zip_walk"
    /\ \E order \in WalkOrders(zip_file, temp_dir.files) :
          /\ walk_order' = order
          /\ zip_images' = WalkFiles(zip_file, order, 1, zip_images)
    /\ pc' = "zip_exit"
    /\ UNCHANGED <<today, current_date, flow, individual_files, zip_file, all_images, temp_dir,
                   model_calls, request, result, parsed_result, ws, webhook_posts, ret>>

\* the mutant: only the files the walk visited are removed, and the directory
\* when nothing is left in it
CleanupVisitedOnly(dir, order) ==
    LET left == dir.files \ {order[i] : i \in 1..Len(order)}
    IN  [exists |-> left # {}, files |-> left]

\* the mutant: the directory is left for the end of the process
CleanupDeferred(dir, order) == dir

\* TemporaryDirectory.__exit__: the directory and all it holds are removed
Cleanup(dir, order) == NoTempDir

\* the end of the with block, and the return
ZipExit ==
    /\ pc = "zip_exit"
    /\ temp_dir' = Cleanup(temp_dir, walk_order)
    /\ pc' = "zip_return"
    /\ UNCHANGED <<today, current_date, flow, individual_files, zip_file, all_images, zip_images, walk_order,
                   model_calls, request, result, parsed_result, ws, webhook_posts, ret>>

\* the mutant: the archive pages replace the pages gathered so far
ExtendReplacing ==
    /\ pc = "zip_return"
    /\ all_images' = zip_images
    /\ pc' = "check"
    /\ UNCHANGED <<today, current_date, flow, individual_files, zip_file, zip_images, temp_dir, walk_order,
                   model_calls, request, result, parsed_result, ws, webhook_posts, ret>>

\* all_images.extend(zip_images)
Extend ==
    /\ pc = "zip_return"
    /\ all_images' = all_images \o zip_images
    /\ pc' = "check"
    /\ UNCHANGED <<today, current_date, flow, individual_files, zip_file, zip_images, temp_dir, walk_order,
                   model_calls, request, result, parsed_result, ws, webhook_posts, ret>>

AccidentExtend == flow = "accident" /\ Extend

WindshieldExtend == flow = "windshield" /\ Extend

NoImagesMessage == Text("No valid images found to process")

AccidentError(error_msg) == <<error_msg, None, 0>>

\* the mutant: the windshield handler answers an error with three values
WindshieldErrorShort(error_msg) == <<error_msg, None, 0>>

WindshieldError(error_msg) ==
    <<error_msg, Text(""), Text(""), error_msg, None, None, 0, Text(""), 0, 0>>

AccidentReturnEmpty ==
    /\ pc = "check" /\ flow = "accident"
    /\ all_images = <<>>
    /\ ret' = Return(AccidentError(NoImagesMessage))
    /\ pc' = "done"
    /\ UNCHANGED <<today, current_date, flow, individual_files, zip_file, all_images, zip_images, temp_dir,
                   walk_order, model_calls, request, result, parsed_result, ws, webhook_posts>>

WindshieldReturnEmpty ==
    /\ pc = "check" /\ flow = "windshield"
    /\ all_images = <<>>
    /\ ret' = Return(WindshieldError(NoImagesMessage))
    /\ pc' = "done"
    /\ UNCHANGED <<today, current_date, flow, individual_files, zip_file, all_images, zip_images, temp_dir,
                   walk_order, model_calls, request, result, parsed_result, ws, webhook_posts>>

\* result = processor.process_documents_with_gemini(all_images, flow_type = ...);
\* an exception that left the method would end in the handler's outer except
CallGeminiWith(flow_type, next, outcomes) ==
    /\ pc = "check"
    /\ all_images # <<>>
    /\ \E api \in outcomes :
          LET r == process_documents_with_gemini(all_images, flow_type, api)
          IN  /\ model_calls' = model_calls + r.calls
              /\ request' = IF r.calls > 0 THEN r.request ELSE request
              /\ IF r.raised
                 THEN /\ ret' = Return(IF flow_type = "accident"
                                         THEN AccidentError(Prefixed("Error: ", Text(r.exc)))
                                         ELSE WindshieldError(Prefixed("Error: ", Text(r.exc))))
                      /\ result' = result
                      /\ pc' = "done"
                 ELSE /\ result' = r.text
                      /\ ret' = ret
                      /\ pc' = next
    /\ UNCHANGED <<today, current_date, flow, individual_files, zip_file, all_images, zip_images, temp_dir,
                   walk_order, parsed_result, ws, webhook_posts>>

CallGemini(flow_type, next) == CallGeminiWith(flow_type, next, ApiOutcomes)

AccidentCallGemini == flow = "accident" /\ CallGemini("accident", "log")

WindshieldCallGemini == flow = "windshield" /\ CallGemini("windshield", "parse")

Username == "user"

\* the mutant: a log post that does not succeed ends the call with the error result
LogStepFailing(flow_type, result_data) ==
    /\ \E outcome \in WebhookOutcomes :
          /\ webhook_posts' = send_webhook_log(webhook_posts, flow_type, Username,
                                               result_data, outcome)
          /\ IF outcome = "200"
             THEN pc' = "return" /\ ret' = ret
             ELSE /\ pc' = "done"
                  /\ ret' = Return(IF flow_type = "accident"
                                   THEN AccidentError(Prefixed("Error: ", Text(outcome)))
                                   ELSE WindshieldError(Prefixed("Error: ", Text(outcome))))
    /\ UNCHANGED <<today, current_date, flow, individual_files, zip_file, all_images, zip_images, temp_dir,
                   walk_order, model_calls, request, result, parsed_result, ws>>

\* the try block around send_webhook_log: the post is attempted, and whatever
\* it does the handler goes on to its return statement
LogStep(flow_type, result_data) ==
    /\ \E outcome \in WebhookOutcomes :
          webhook_posts' = send_webhook_log(webhook_posts, flow_type, Username,
                                           result_data, outcome)
    /\ pc' = "return"
    /\ UNCHANGED <<today, current_date, flow, individual_files, zip_file, all_images, zip_images, temp_dir,
                   walk_order, model_calls, request, result, parsed_result, ws, ret>>

\* the parsed reply is logged, or the raw text when it does not parse
AccidentLog ==
    /\ pc = "log" /\ flow = "accident"
    /\ LET p == JsonLoads(result)
       IN  LogStep("accident",
                   IF p.raised THEN JObj(<<KV("raw_result", result)>>) ELSE p.value)

AccidentReturn ==
    /\ pc = "return" /\ flow = "accident"
    /\ ret' = Return(<<result, Gallery(all_images), Len(all_images)>>)
    /\ pc' = "done"
    /\ UNCHANGED <<today, current_date, flow, individual_files, zip_file, all_images, zip_images, temp_dir,
                   walk_order, model_calls, request, result, parsed_result, ws, webhook_posts>>

\* the sections of the parsed reply, the panels and the damage overlay
\* (lines 917-939): the locals the return statement uses, or what is raised
WindshieldRender(parsed, images) ==
    IF ~IsDict(parsed) THEN Raised("AttributeError")
    ELSE LET document_checklist == DictGet(parsed, "documentChecklist", EmptyDict)
             extracted_data == DictGet(parsed, "extractedData", EmptyDict)
             consistency_analysis == DictGet(parsed, "consistencyAnalysis", EmptyDict)
             tiles == create_extraction_tiles(extracted_data, 0)
             damage == DamageImage(extracted_data, images)
         IN  IF damage.raised THEN Raised(damage.exc)
             ELSE Returned([document_checklist |-> document_checklist,
                            extracted_data |-> extracted_data,
                            consistency_analysis |-> consistency_analysis,
                            checklist_html |-> create_windshield_checklist_display(document_checklist),
                            extraction_html |-> tiles.html,
                            current_idx |-> tiles.index,
                            total_sections |-> tiles.total,
                            validation_html |-> create_validation_display(consistency_analysis),
                            damage_image |-> damage.value])

\* json.loads of the reply, then the rendering
WindshieldParse ==
    /\ pc = "parse" /\ flow = "windshield"
    /\ LET p == JsonLoads(result)
       IN  IF p.raised
           THEN /\ ret' = Return(WindshieldError(Prefixed("Error parsing result: ", result)))
                /\ pc' = "done"
                /\ UNCHANGED <<parsed_result, ws>>
           ELSE LET w == WindshieldRender(p.value, all_images)
                IN  /\ parsed_result' = p.value
                    /\ IF w.raised
                       THEN /\ ret' = Return(WindshieldError(Prefixed("Error: ", Text(w.exc))))
                            /\ pc' = "done"
                            /\ ws' = ws
                       ELSE /\ ws' = w.value
                            /\ pc' = "log"
                            /\ ret' = ret
    /\ all_images' = LET p == JsonLoads(result)
                     IN  IF p.raised \/ WindshieldRender(p.value, all_images).raised
                         THEN all_images
                         ELSE PagesAfterOverlay(all_images,
                                  WindshieldRender(p.value, all_images).value.damage_image)
    /\ UNCHANGED <<today, current_date, flow, individual_files, zip_file, zip_images, temp_dir,
                   walk_order, model_calls, request, result, webhook_posts>>

WindshieldLog ==
    /\ pc = "log" /\ flow = "windshield"
    /\ LogStep("windshield", parsed_result)

WindshieldReturn ==
    /\ pc = "return" /\ flow = "windshield"
    /\ ret' = Return(<<ws.checklist_html, ws.extraction_html, ws.validation_html,
                       JsonDumps(parsed_result), Gallery(all_images), ws.damage_image,
                       Len(all_images), result, ws.current_idx, ws.total_sections>>)
    /\ pc' = "done"
    /\ UNCHANGED <<today, current_date, flow, individual_files, zip_file, all_images, zip_images, temp_dir,
                   walk_order, model_calls, request, result, parsed_result, ws, webhook_posts>>

\* a direct call of parse_and_format_json(json_result)
FormatJson ==
    /\ pc = "idle"
    /\ \E text \in FormatInputs :
        /\ Enter("format", <<>>, None)
        /\ all_images' = <<>> /\ model_calls' = 0 /\ request' = None
        /\ result' = text
        /\ ret' = LET r == parse_and_format_json(text)
                  IN  IF r.raised THEN NoReturn ELSE Return(r.value)
        /\ pc' = "done"

\* the values of flow_type a caller may pass
FlowTypes == {"accident", "windshield", "other"}

\* a direct call of processor.process_documents_with_gemini(images, flow_type);
\* ws keeps the flow_type of the call
DirectGemini ==
    /\ pc = "idle"
    /\ \E images \in {<<>>, <<PageImage(<<"loose", 1>>, 0, TRUE, TRUE)>>} :
       \E flow_type \in FlowTypes :
       \E api \in ApiOutcomes :
          LET r == process_documents_with_gemini(images, flow_type, api)
          IN  /\ flow' = "direct"
              /\ individual_files' = <<>> /\ zip_file' = None
              /\ zip_images' = <<>> /\ walk_order' = <<>> /\ temp_dir' = temp_dir
              /\ webhook_posts' = <<>>
              /\ parsed_result' = None
              /\ ws' = [flow_type |-> flow_type]
              /\ all_images' = images
              /\ model_calls' = r.calls
              /\ request' = r.request
              /\ result' = r.text
              /\ ret' = IF r.raised THEN NoReturn ELSE Return(r.text)
              /\ pc' = "done"
              /\ UNCHANGED <<today, current_date>>

\* the UI has taken the returned value; the locals of the call are gone
Finish ==
    /\ pc = "done"
    /\ pc' = "idle"
    /\ flow' = "none"
    /\ individual_files' = <<>>
    /\ zip_file' = None
    /\ all_images' = <<>>
    /\ zip_images' = <<>>
    /\ walk_order' = <<>>
    /\ model_calls' = 0
    /\ request' = None
    /\ result' = None
    /\ parsed_result' = None
    /\ ws' = None
    /\ webhook_posts' = <<>>
    /\ ret' = NoReturn
    /\ temp_dir' = temp_dir
    /\ UNCHANGED <<today, current_date>>

Next ==
    \/ SubmitAccident
    \/ SubmitWindshield
    \/ AccidentGather
    \/ WindshieldGather
    \/ ZipEnter
    \/ ZipExtract
    \/ ZipWalk
    \/ ZipExit
    \/ AccidentExtend
    \/ WindshieldExtend
    \/ AccidentReturnEmpty
    \/ WindshieldReturnEmpty
    \/ AccidentCallGemini
    \/ WindshieldCallGemini
    \/ AccidentLog
    \/ AccidentReturn
    \/ WindshieldParse
    \/ WindshieldLog
    \/ WindshieldReturn
    \/ FormatJson
    \/ DirectGemini
    \/ Finish

Spec == Init /\ [][Next]_vars

-----------------------------------------------------------------------------
(* The windshield handler over every shape of reply, for submissions of    *)
(* no, one and two page images (a file named .png has no suffix).          *)

FewUploads ==
    { <<File(<<"a", ".", "t", "x", "t">>, "garbage", 0)>>,
      <<File(<<"a", ".", "p", "n", "g">>, "image", 0)>>,
      <<File(<<"a", ".", "p", "n", "g">>, "image", 0), File(<<".", "p", "n", "g">>, "image", 0)>>,
      <<File(<<"a", ".", "p", "n", "g">>, "image", 0), File(<<"a", ".", "p", "n", "g">>, "image", 0)>> }

SubmitFew ==
    /\ pc = "idle"
    /\ \E files \in FewUploads :
        /\ Enter("windshield", files, None)
        /\ all_images' = <<>> /\ model_calls' = 0 /\ request' = None
        /\ result' = None /\ ret' = NoReturn /\ pc' = "gather"

WindshieldCallGeminiAnyReply ==
    flow = "windshield" /\ CallGeminiWith("windshield", "parse", WindshieldOutcomes)

NextReplies ==
    \/ SubmitFew
    \/ WindshieldGather
    \/ WindshieldReturnEmpty
    \/ WindshieldCallGeminiAnyReply
    \/ WindshieldParse
    \/ WindshieldLog
    \/ WindshieldReturn
    \/ Finish

SpecReplies == Init /\ [][NextReplies]_vars

-----------------------------------------------------------------------------
(* Direct calls of the functions that have no state of their own *)

\* what a call that uploads nothing and calls no service leaves alone
Call(kind) ==
    /\ pc = "idle"
    /\ flow' = kind
    /\ individual_files' = <<>> /\ zip_file' = None
    /\ zip_images' = <<>> /\ walk_order' = <<>> /\ temp_dir' = temp_dir
    /\ model_calls' = 0 /\ request' = None
    /\ webhook_posts' = <<>>
    /\ UNCHANGED <<today, current_date>>

\* identify_document_type(doc_data)
IdentifyDocument ==
    /\ pc = "idle"
    /\ \E doc_data \in DocInputs :
        /\ Call("identify")
        /\ parsed_result' = doc_data
        /\ ret' = Return(Text(identify_document_type(doc_data)))
        /\ all_images' = <<>> /\ result' = None /\ ws' = None
        /\ pc' = "done"

\* draw_bounding_box_on_image(image, box_coords)
DrawBox ==
    /\ pc = "idle"
    /\ \E size \in ImageSizes, box_coords \in BoxInputs :
        LET image == [PageImage(<<"loose", 1>>, 0, TRUE, TRUE) EXCEPT !.size = size]
        IN  /\ Call("draw")
            /\ all_images' = <<ImageAfterDraw(image, draw_bounding_box_on_image(image, box_coords))>>
            /\ parsed_result' = JArr(box_coords)
            /\ ret' = Return(draw_bounding_box_on_image(image, box_coords))
            /\ result' = None /\ ws' = None
            /\ pc' = "done"

NextFunctions ==
    \/ FormatJson
    \/ IdentifyDocument
    \/ DrawBox
    \/ Finish

SpecFunctions == Init /\ [][NextFunctions]_vars

-----------------------------------------------------------------------------
(* Navigation of the extraction tiles.  The two buttons call               *)
(* navigate_extraction_tiles with the raw result and the current index     *)
(* the UI holds, and the index it returns is the current index of the next *)
(* call.                                                                   *)

navigate_extraction_tiles(extracted_data_json, direction, current_index) ==
    IF IsEmptyText(extracted_data_json) THEN Tiles(Html("no data", FALSE), 0, 0)
    ELSE LET p == JsonLoads(extracted_data_json)
         IN  IF p.raised \/ ~IsDict(p.value)
             THEN Tiles(Html("navigating", TRUE), current_index, 0)
             ELSE LET extracted_data == DictGet(p.value, "extractedData", EmptyDict)
                      present == [i \in 1..Len(section_mapping) |->
                                     Contains(extracted_data, section_mapping[i])]
                      section_count ==
                          Cardinality({i \in 1..Len(section_mapping) : present[i].value})
                      new_index ==
                          IF direction = "prev" THEN Max2(0, current_index - 1)
                          ELSE IF direction = "next" THEN Min2(section_count - 1, current_index + 1)
                          ELSE current_index
                  IN  IF \E i \in 1..Len(section_mapping) : present[i].raised
                      THEN Tiles(Html("navigating", TRUE), current_index, 0)
                      ELSE create_extraction_tiles(extracted_data, new_index)

\* extractedData with each choice of its sections
SectionChoices ==
    {ObjectOf([i \in 1..Len(section_mapping) |->
                  KV(section_mapping[i], IF i \in S THEN EmptyDict ELSE Absent)]) :
        S \in SUBSET (1..Len(section_mapping))}

\* keys of extractedData in a reply
MaxShuffled == 3

\* extractedData with some of its sections and a key that is no section, in
\* any order
ShuffledSections ==
    {JObj([i \in 1..Len(ks) |-> KV(ks[i], EmptyDict)]) :
        ks \in DistinctSeqs({section_mapping[i] : i \in 1..Len(section_mapping)}
                               \cup {"policyDetails"}, MaxShuffled)}

\* the raw result the UI holds
NavigateInputs ==
    {JsonText("reply", ObjectOf(<<KV("extractedData", e)>>)) :
        e \in SectionChoices \cup ShuffledSections
              \cup {Absent, JNull, JArr(<<JStr("civilId")>>), JStr("civilId")}}
    \cup {JsonText("reply", JArr(<<>>)), Text("I cannot read these documents"), Text("")}

\* the current index the UI holds: any integer
IndexInputs == (-MaxIndex)..(Len(section_mapping) + MaxIndex)

\* the UI shows a windshield result; no handler is running
InitNavigate ==
    /\ pc = "shown"
    /\ flow = "navigate"
    /\ individual_files = <<>>
    /\ zip_file = None
    /\ all_images = <<>>
    /\ zip_images = <<>>
    /\ temp_dir = NoTempDir
    /\ walk_order = <<>>
    /\ model_calls = 0
    /\ request = None
    /\ result \in NavigateInputs
    /\ parsed_result = None
    /\ ws = None
    /\ webhook_posts = <<>>
    /\ ret \in {Return(Tiles(Html("no extraction data", FALSE), i, 0)) : i \in IndexInputs}
    /\ today = 1
    /\ current_date = today

\* one click: ws keeps the arguments of the call, ret what it returned
Navigate(direction) ==
    /\ pc = "shown"
    /\ ws' = [direction |-> direction, current_index |-> ret.value.index]
    /\ ret' = Return(navigate_extraction_tiles(result, direction, ret.value.index))
    /\ UNCHANGED <<today, current_date, pc, flow, individual_files, zip_file, all_images, zip_images, temp_dir,
                   walk_order, model_calls, request, result, parsed_result, webhook_posts>>

\* windshield_prev_btn.click
NavigatePrev == flow = "navigate" /\ Navigate("prev")

\* windshield_next_extraction_btn.click
NavigateNext == flow = "navigate" /\ Navigate("next")

NextNavigate ==
    \/ NavigatePrev
    \/ NavigateNext

SpecNavigate == InitNavigate /\ [][NextNavigate]_vars

-----------------------------------------------------------------------------
(* The three functions the UI calls: a session is a run of submissions, or *)
(* of clicks on the navigation buttons over a result the UI holds.         *)

InitResponses == Init \/ InitNavigate

NextResponses == Next \/ NextNavigate

SpecResponses == InitResponses /\ [][NextResponses]_vars

-----------------------------------------------------------------------------
(* Two submissions at the same time.  Gradio runs each click in a thread   *)
(* of its own; each call of a handler has its own locals, so every         *)
(* variable of a call is kept per submission.  What the two calls share is *)
(* the file system: temp_dir maps the name of a temporary directory to     *)
(* what it holds, an extracted file being kept with the submission that    *)
(* extracted it.                                                           *)

Procs == {1, 2}

\* the mutant: the archives are extracted into one fixed directory
TempDirFixed(p) == 1

\* tempfile.TemporaryDirectory(): mkdtemp gives every call a directory of a
\* name no other call has
TempDirOf(p) == p

ConcurrentUploads ==
    { <<<<File(<<"a", ".", "p", "n", "g">>, "image", 0)>>, None>>,
      <<<<>>, Archive(TRUE, <<Entry(<<"x", ".", "j", "p", "e", "g">>, "image", 0, TRUE),
                              Entry(<<"y", ".", "P", "d", "f">>, "pdf", MaxPages, TRUE)>>)>>,
      <<<<File(<<"a", ".", "p", "n", "g">>, "image", 0)>>,
        Archive(TRUE, <<Entry(<<"x", ".", "j", "p", "e", "g">>, "image", 0, TRUE),
                        Entry(<<"w", ".", "b", "m", "p">>, "image", 0, FALSE)>>)>>,
      <<<<File(<<"a", ".", "t", "x", "t">>, "garbage", 0)>>, Archive(FALSE, <<>>)>> }

ConcurrentOutcomes ==
    { Raised("503 UNAVAILABLE"),
      Returned(Text("I cannot read these documents")),
      Returned(JsonText("{...}", FullReply)) }

InitConcurrent ==
    /\ pc = [p \in Procs |-> "idle"]
    /\ flow = [p \in Procs |-> "none"]
    /\ individual_files = [p \in Procs |-> <<>>]
    /\ zip_file = [p \in Procs |-> None]
    /\ all_images = [p \in Procs |-> <<>>]
    /\ zip_images = [p \in Procs |-> <<>>]
    /\ temp_dir = [d \in Procs |-> NoTempDir]
    /\ walk_order = [p \in Procs |-> <<>>]
    /\ model_calls = [p \in Procs |-> 0]
    /\ request = [p \in Procs |-> None]
    /\ result = [p \in Procs |-> None]
    /\ parsed_result = [p \in Procs |-> None]
    /\ ws = [p \in Procs |-> None]
    /\ webhook_posts = [p \in Procs |-> <<>>]
    /\ ret = [p \in Procs |-> NoReturn]
    /\ today = 1
    /\ current_date = today

\* a click on one of the two process buttons
ConcurrentSubmit(p) ==
    /\ pc[p] = "idle"
    /\ \E kind \in {"accident", "windshield"}, u \in ConcurrentUploads :
        /\ flow' = [flow EXCEPT ![p] = kind]
        /\ individual_files' = [individual_files EXCEPT ![p] = u[1]]
        /\ zip_file' = [zip_file EXCEPT ![p] = u[2]]
    /\ pc' = [pc EXCEPT ![p] = "gather"]
    /\ UNCHANGED <<today, current_date, all_images, zip_images, temp_dir, walk_order, model_calls, request,
                   result, parsed_result, ws, webhook_posts, ret>>

ConcurrentGather(p) ==
    /\ pc[p] = "gather"
    /\ all_images' = [all_images EXCEPT ![p] =
                         IF individual_files[p] # <<>>
                         THEN @ \o process_uploaded_files(individual_files[p])
                         ELSE @]
    /\ pc' = [pc EXCEPT ![p] = IF zip_file[p] # None THEN "zip_call" ELSE "check"]
    /\ UNCHANGED <<today, current_date, flow, individual_files, zip_file, zip_images, temp_dir, walk_order,
                   model_calls, request, result, parsed_result, ws, webhook_posts, ret>>

ConcurrentZipEnter(p) ==
    /\ pc[p] = "zip_call"
    /\ zip_images' = [zip_images EXCEPT ![p] = <<>>]
    /\ IF zip_file[p] = None
       THEN pc' = [pc EXCEPT ![p] = "zip_return"] /\ temp_dir' = temp_dir
       ELSE /\ pc' = [pc EXCEPT ![p] = "zip_extract"]
            /\ temp_dir' = [temp_dir EXCEPT ![TempDirOf(p)] = [exists |-> TRUE, files |-> {}]]
    /\ UNCHANGED <<today, current_date, flow, individual_files, zip_file, all_images, walk_order,
                   model_calls, request, result, parsed_result, ws, webhook_posts, ret>>

\* an extracted file, with the submission whose archive it came from
ExtractedFile(p, i) == [owner |-> p, index |-> i, entry |-> zip_file[p].entries[i]]

ConcurrentZipExtract(p) ==
    /\ pc[p] = "zip_extract"
    /\ IF ~zip_file[p].readable
       THEN pc' = [pc EXCEPT ![p] = "zip_exit"] /\ temp_dir' = temp_dir
       ELSE LET x == ExtractAll(zip_file[p])
            IN  /\ temp_dir' = [temp_dir EXCEPT ![TempDirOf(p)] =
                                   [exists |-> TRUE,
                                    files |-> @.files \cup {ExtractedFile(p, i) : i \in x.value}]]
                /\ pc' = [pc EXCEPT ![p] = IF x.raised THEN "zip_exit" ELSE "zip_walk"]
    /\ UNCHANGED <<today, current_date, flow, individual_files, zip_file, all_images, zip_images, walk_order,
                   model_calls, request, result, parsed_result, ws, webhook_posts, ret>>

\* os.walk over what the directory holds
DirWalkOrders(files) ==
    {s \in Orderings(files) :
        \A i, j \in 1..Len(s) : i < j => Depth(s[i].entry.name) <= Depth(s[j].entry.name)}

RECURSIVE DirWalkFiles(_, _, _, _)
DirWalkFiles(p, order, i, images) ==
    IF i > Len(order) THEN images
    ELSE DirWalkFiles(p, order, i + 1,
                      WalkOneFile(images,
                                  IF order[i].owner = p THEN <<"zip", order[i].index>>
                                  ELSE <<"zip", order[i].index, order[i].owner>>,
                                  order[i].entry))

ConcurrentZipWalk(p) ==
    /\ pc[p] = "zip_walk"
    /\ \E order \in DirWalkOrders(temp_dir[TempDirOf(p)].files) :
          /\ walk_order' = [walk_order EXCEPT ![p] = [i \in 1..Len(order) |-> order[i].index]]
          /\ zip_images' = [zip_images EXCEPT ![p] = DirWalkFiles(p, order, 1, @)]
    /\ pc' = [pc EXCEPT ![p] = "zip_exit"]
    /\ UNCHANGED <<today, current_date, flow, individual_files, zip_file, all_images, temp_dir,
                   model_calls, request, result, parsed_result, ws, webhook_posts, ret>>

ConcurrentZipExit(p) ==
    /\ pc[p] = "zip_exit"
    /\ temp_dir' = [temp_dir EXCEPT ![TempDirOf(p)] = Cleanup(@, walk_order[p])]
    /\ pc' = [pc EXCEPT ![p] = "zip_return"]
    /\ UNCHANGED <<today, current_date, flow, individual_files, zip_file, all_images, zip_images, walk_order,
                   model_calls, request, result, parsed_result, ws, webhook_posts, ret>>

ConcurrentExtend(p) ==
    /\ pc[p] = "zip_return"
    /\ all_images' = [all_images EXCEPT ![p] = @ \o zip_images[p]]
    /\ pc' = [pc EXCEPT ![p] = "check"]
    /\ UNCHANGED <<today, current_date, flow, individual_files, zip_file, zip_images, temp_dir, walk_order,
                   model_calls, request, result, parsed_result, ws, webhook_posts, ret>>

ConcurrentReturnEmpty(p) ==
    /\ pc[p] = "check"
    /\ all_images[p] = <<>>
    /\ ret' = [ret EXCEPT ![p] = Return(IF flow[p] = "accident"
                                        THEN AccidentError(NoImagesMessage)
                                        ELSE WindshieldError(NoImagesMessage))]
    /\ pc' = [pc EXCEPT ![p] = "done"]
    /\ UNCHANGED <<today, current_date, flow, individual_files, zip_file, all_images, zip_images, temp_dir,
                   walk_order, model_calls, request, result, parsed_result, ws, webhook_posts>>

ConcurrentCallGemini(p) ==
    /\ pc[p] = "check"
    /\ all_images[p] # <<>>
    /\ \E api \in ConcurrentOutcomes :
          LET r == process_documents_with_gemini(all_images[p], flow[p], api)
          IN  /\ model_calls' = [model_calls EXCEPT ![p] = @ + r.calls]
              /\ request' = [request EXCEPT ![p] = IF r.calls > 0 THEN r.request ELSE @]
              /\ result' = [result EXCEPT ![p] = r.text]
    /\ pc' = [pc EXCEPT ![p] = IF flow[p] = "accident" THEN "log" ELSE "parse"]
    /\ UNCHANGED <<today, current_date, flow, individual_files, zip_file, all_images, zip_images, temp_dir,
                   walk_order, parsed_result, ws, webhook_posts, ret>>

ConcurrentParse(p) ==
    /\ pc[p] = "parse"
    /\ LET j == JsonLoads(result[p])
       IN  IF j.raised
           THEN /\ ret' = [ret EXCEPT ![p] =
                              Return(WindshieldError(Prefixed("Error parsing result: ", result[p])))]
                /\ pc' = [pc EXCEPT ![p] = "done"]
                /\ UNCHANGED <<parsed_result, ws>>
           ELSE LET w == WindshieldRender(j.value, all_images[p])
                IN  /\ parsed_result' = [parsed_result EXCEPT ![p] = j.value]
                    /\ IF w.raised
                       THEN /\ ret' = [ret EXCEPT ![p] =
                                          Return(WindshieldError(Prefixed("Error: ", Text(w.exc))))]
                            /\ pc' = [pc EXCEPT ![p] = "done"]
                            /\ ws' = ws
                       ELSE /\ ws' = [ws EXCEPT ![p] = w.value]
                            /\ pc' = [pc EXCEPT ![p] = "log"]
                            /\ ret' = ret
    /\ UNCHANGED <<today, current_date, flow, individual_files, zip_file, all_images, zip_images, temp_dir,
                   walk_order, model_calls, request, result, webhook_posts>>

ConcurrentLog(p) ==
    /\ pc[p] = "log"
    /\ \E outcome \in WebhookOutcomes :
          webhook_posts' = [webhook_posts EXCEPT ![p] =
              send_webhook_log(@, flow[p], Username,
                               IF flow[p] = "windshield" THEN parsed_result[p]
                               ELSE IF JsonLoads(result[p]).raised
                               THEN JObj(<<KV("raw_result", result[p])>>)
                               ELSE JsonLoads(result[p]).value,
                               outcome)]
    /\ pc' = [pc EXCEPT ![p] = "return"]
    /\ UNCHANGED <<today, current_date, flow, individual_files, zip_file, all_images, zip_images, temp_dir,
                   walk_order, model_calls, request, result, parsed_result, ws, ret>>

ConcurrentReturn(p) ==
    /\ pc[p] = "return"
    /\ ret' = [ret EXCEPT ![p] =
                  Return(IF flow[p] = "accident"
                         THEN <<result[p], Gallery(all_images[p]), Len(all_images[p])>>
                         ELSE <<ws[p].checklist_html, ws[p].extraction_html,
                                ws[p].validation_html, JsonDumps(parsed_result[p]),
                                Gallery(all_images[p]), ws[p].damage_image,
                                Len(all_images[p]), result[p], ws[p].current_idx,
                                ws[p].total_sections>>)]
    /\ pc' = [pc EXCEPT ![p] = "done"]
    /\ UNCHANGED <<today, current_date, flow, individual_files, zip_file, all_images, zip_images, temp_dir,
                   walk_order, model_calls, request, result, parsed_result, ws, webhook_posts>>

\* the UI has taken the returned value; the locals of the call are gone
ConcurrentFinish(p) ==
    /\ pc[p] = "done"
    /\ pc' = [pc EXCEPT ![p] = "idle"]
    /\ flow' = [flow EXCEPT ![p] = "none"]
    /\ individual_files' = [individual_files EXCEPT ![p] = <<>>]
    /\ zip_file' = [zip_file EXCEPT ![p] = None]
    /\ all_images' = [all_images EXCEPT ![p] = <<>>]
    /\ zip_images' = [zip_images EXCEPT ![p] = <<>>]
    /\ walk_order' = [walk_order EXCEPT ![p] = <<>>]
    /\ model_calls' = [model_calls EXCEPT ![p] = 0]
    /\ request' = [request EXCEPT ![p] = None]
    /\ result' = [result EXCEPT ![p] = None]
    /\ parsed_result' = [parsed_result EXCEPT ![p] = None]
    /\ ws' = [ws EXCEPT ![p] = None]
    /\ webhook_posts' = [webhook_posts EXCEPT ![p] = <<>>]
    /\ ret' = [ret EXCEPT ![p] = NoReturn]
    /\ temp_dir' = temp_dir
    /\ UNCHANGED <<today, current_date>>

NextConcurrent ==
    \E p \in Procs :
        \/ ConcurrentSubmit(p)
        \/ ConcurrentGather(p)
        \/ ConcurrentZipEnter(p)
        \/ ConcurrentZipExtract(p)
        \/ ConcurrentZipWalk(p)
        \/ ConcurrentZipExit(p)
        \/ ConcurrentExtend(p)
        \/ ConcurrentReturnEmpty(p)
        \/ ConcurrentCallGemini(p)
        \/ ConcurrentParse(p)
        \/ ConcurrentLog(p)
        \/ ConcurrentReturn(p)
        \/ ConcurrentFinish(p)

SpecConcurrent == InitConcurrent /\ [][NextConcurrent]_vars

-----------------------------------------------------------------------------
(* The logging POST in time.  requests.post(WEBHOOK_URL, json = payload,    *)
(* timeout = 10) is called on the thread of the handler: between the       *)
(* sending of the request and its answer, its failure or its timeout the   *)
(* POST is in flight, and the handler is inside send_webhook_log.          *)

SubmitAccidentFew ==
    /\ pc = "idle"
    /\ \E files \in FewUploads :
        /\ Enter("accident", files, None)
        /\ all_images' = <<>> /\ model_calls' = 0 /\ request' = None
        /\ result' = None /\ ret' = NoReturn /\ pc' = "gather"

\* requests.post has sent the request
PostSent(flow_type, result_data) ==
    /\ webhook_posts' = send_webhook_log(webhook_posts, flow_type, Username,
                                         result_data, "in flight")
    /\ pc' = "post"
    /\ UNCHANGED <<today, current_date, flow, individual_files, zip_file, all_images, zip_images,
                   temp_dir, walk_order, model_calls, request, result, parsed_result, ws, ret>>

AccidentPost ==
    /\ pc = "log" /\ flow = "accident"
    /\ LET p == JsonLoads(result)
       IN  PostSent("accident",
                    IF p.raised THEN JObj(<<KV("raw_result", result)>>) ELSE p.value)

WindshieldPost ==
    /\ pc = "log" /\ flow = "windshield"
    /\ PostSent("windshield", parsed_result)

\* requests.post returns a response or raises, at the latest when the
\* timeout expires; send_webhook_log prints and returns to the handler
PostReturns ==
    /\ pc = "post"
    /\ \E outcome \in WebhookOutcomes :
          webhook_posts' = [webhook_posts EXCEPT ![Len(webhook_posts)].outcome = outcome]
    /\ pc' = "return"
    /\ UNCHANGED <<today, current_date, flow, individual_files, zip_file, all_images, zip_images,
                   temp_dir, walk_order, model_calls, request, result, parsed_result, ws, ret>>

NextLogging ==
    \/ SubmitAccidentFew
    \/ SubmitFew
    \/ AccidentGather
    \/ WindshieldGather
    \/ AccidentReturnEmpty
    \/ WindshieldReturnEmpty
    \/ AccidentCallGemini
    \/ WindshieldCallGemini
    \/ WindshieldParse
    \/ AccidentPost
    \/ WindshieldPost
    \/ PostReturns
    \/ AccidentReturn
    \/ WindshieldReturn
    \/ Finish

SpecLogging == Init /\ [][NextLogging]_vars

-----------------------------------------------------------------------------
(* A process that runs for several days: windshield submissions, and days  *)
(* that pass between them.                                                 *)

\* the days the process runs
MaxDay == 2

\* midnight: datetime.now() gives the next day from now on
NextDay ==
    /\ pc = "idle"
    /\ today < MaxDay
    /\ today' = today + 1
    /\ UNCHANGED <<current_date, pc, flow, individual_files, zip_file, all_images, zip_images,
                   temp_dir, walk_order, model_calls, request, result, parsed_result, ws,
                   webhook_posts, ret>>

NextDays ==
    \/ SubmitFew
    \/ WindshieldGather
    \/ WindshieldReturnEmpty
    \/ WindshieldCallGemini
    \/ WindshieldParse
    \/ WindshieldLog
    \/ WindshieldReturn
    \/ Finish
    \/ NextDay

SpecDays == Init /\ [][NextDays]_vars

-----------------------------------------------------------------------------
(* Properties *)

RECURSIVE Flatten(_)
Flatten(ss) == IF ss = <<>> THEN <<>> ELSE Head(ss) \o Flatten(Tail(ss))

\* the name ends, whatever the case of its letters, with the extension ext
\* and has a stem before it
EndsWithExt(name, ext) ==
    /\ Len(name) > Len(ext)
    /\ \A i \in 1..Len(ext) : LowerChar(name[Len(name) - Len(ext) + i]) = ext[i]
    /\ \A i \in 1..Len(ext) : name[Len(name) - Len(ext) + i] # "/"
    /\ name[Len(name) - Len(ext)] # "/"

ImageExtensions ==
    { <<".", "p", "n", "g">>, <<".", "j", "p", "g">>, <<".", "j", "p", "e", "g">>,
      <<".", "b", "m", "p">>, <<".", "t", "i", "f", "f">> }

IsImageName(name) == \E e \in ImageExtensions : EndsWithExt(name, e)
IsPdfName(name) == EndsWithExt(name, <<".", "p", "d", "f">>)

\* the pages a supported file contributes when it is submitted alone
PagesAlone(src, f) ==
    IF IsImageName(f.name)
    THEN IF f.content \in {"image", "lazy_bad"}
         THEN <<PageImage(src, 0, f.content = "image", TRUE)>>
         ELSE <<>>
    ELSE IF IsPdfName(f.name) /\ f.content = "pdf"
    THEN [k \in 1..f.pages |-> PageImage(src, k, TRUE, FALSE)]
    ELSE <<>>

LoosePages ==
    Flatten([i \in 1..Len(individual_files) |-> PagesAlone(<<"loose", i>>, individual_files[i])])

\* all_images holds the result of process_uploaded_files and nothing else
AfterLooseFiles ==
    \/ pc \in {"zip_call", "zip_extract", "zip_walk", "zip_exit", "zip_return"}
    \/ pc = "check" /\ zip_file = None

\* C1: process_uploaded_files yields the pages of exactly the files whose
\* extension, compared without regard to case, is .png .jpg .jpeg .bmp .tiff
\* or .pdf, in submission order; every other file is dropped without an error
\* and without changing the pages of the supported files.
C1_SupportedLooseFilesInOrder ==
    AfterLooseFiles =>
        /\ all_images = LoosePages
        /\ \A i \in 1..Len(individual_files) :
              ~(IsImageName(individual_files[i].name) \/ IsPdfName(individual_files[i].name))
                  => \A k \in 1..Len(all_images) : all_images[k].src # <<"loose", i>>

\* [a.png, a.txt, b.pdf] has given the page of a.png, then the pages of b.pdf
C1_Witness ==
    /\ pc = "check" /\ zip_file = None
    /\ Len(individual_files) = 3
    /\ individual_files[1].name = <<"a", ".", "p", "n", "g">>
    /\ individual_files[2].name = <<"a", ".", "t", "x", "t">>
    /\ individual_files[3].name = <<"b", ".", "p", "d", "f">>
    /\ Len(all_images) = 1 + MaxPages
    /\ all_images[1].src = <<"loose", 1>>
    /\ all_images[2].src = <<"loose", 3>>

\* the archive was opened and every member of it was extracted
Extracted ==
    /\ zip_file # None
    /\ zip_file.readable
    /\ \A i \in 1..Len(zip_file.entries) : zip_file.entries[i].crc_ok

ReadableImages ==
    {i \in 1..Len(zip_file.entries) :
        IsImageName(zip_file.entries[i].name) /\ zip_file.entries[i].content \in {"image", "lazy_bad"}}

ReadablePdfs ==
    {i \in 1..Len(zip_file.entries) :
        IsPdfName(zip_file.entries[i].name) /\ zip_file.entries[i].content = "pdf"}

RECURSIVE SumPages(_)
SumPages(S) ==
    IF S = {} THEN 0
    ELSE LET i == CHOOSE j \in S : TRUE
         IN  zip_file.entries[i].pages + SumPages(S \ {i})

\* C2: for an archive whose readable entries are N images and M PDFs with
\* page counts p1..pM, process_zip_file returns exactly N + (p1 + ... + pM)
\* page images, and the pages of each PDF are contiguous, in increasing order.
C2_ArchivePageCount ==
    (pc = "zip_return" /\ Extracted) =>
        /\ Len(zip_images) = Cardinality(ReadableImages) + SumPages(ReadablePdfs)
        /\ \A i \in ReadablePdfs :
              \E first \in 0..Len(zip_images) :
                  \A k \in 1..zip_file.entries[i].pages :
                      /\ first + k <= Len(zip_images)
                      /\ zip_images[first + k].src = <<"zip", i>>
                      /\ zip_images[first + k].page = k

\* an archive of one image and two PDFs of several pages each has been walked,
\* the second PDF first
C2_Witness ==
    /\ pc = "zip_return" /\ Extracted
    /\ Cardinality(ReadableImages) = 1
    /\ Cardinality(ReadablePdfs) = 2
    /\ Len(zip_images) = 1 + 2 * MaxPages
    /\ zip_images[1].src[2] > zip_images[Len(zip_images)].src[2]

\* position of a page image in the submission: loose files before archive
\* members, files in submission order, members in walk order, then the page
Position(img) ==
    IF img.src[1] = "loose" THEN <<0, img.src[2], img.page>>
    ELSE <<1, CHOOSE k \in 1..Len(walk_order) : walk_order[k] = img.src[2], img.page>>

Before(a, b) ==
    \/ a[1] < b[1]
    \/ a[1] = b[1] /\ a[2] < b[2]
    \/ a[1] = b[1] /\ a[2] = b[2] /\ a[3] < b[3]

\* C3: the image parts handed to the external model are as many as the page
\* images of the submission, part i encodes page image i, and the page images
\* are the loose-file pages in submission order followed by the archive pages
\* in walk order; so imageIndex i of the reply is the i-th submitted image.
C3_PartsFollowPageOrder ==
    request # None =>
        /\ Len(request.contents) = Len(all_images)
        /\ \A i \in 1..Len(all_images) :
              /\ request.contents[i].mime_type = "image/png"
              /\ request.contents[i].data = <<all_images[i].src, all_images[i].page>>
        /\ flow \in {"accident", "windshield"} =>
              /\ \A i, j \in 1..Len(all_images) :
                    i < j => Before(Position(all_images[i]), Position(all_images[j]))
              /\ \E n \in 0..Len(all_images) :
                    /\ SubSeq(all_images, 1, n) = LoosePages
                    /\ \A i \in (n + 1)..Len(all_images) : all_images[i].src[1] = "zip"

\* a request of loose pages and of archive pages walked out of archive order
C3_Witness ==
    /\ request # None
    /\ Len(walk_order) = 2 /\ walk_order[1] = 2
    /\ Len(request.contents) >= 4
    /\ request.contents[1].data[1][1] = "loose"
    /\ request.contents[Len(request.contents)].data[1] = <<"zip", 1>>

Handlers == {"accident", "windshield"}

\* C4: a submission that produces no page image gets the "nothing to process"
\* result from both handlers and the external model is never called;
\* process_documents_with_gemini called with no image returns without calling it.
C4_NoImagesNoModelCall ==
    /\ (flow \in Handlers /\ pc = "done" /\ all_images = <<>>) =>
          /\ model_calls = 0
          /\ request = None
          /\ ret = Return(IF flow = "accident" THEN AccidentError(NoImagesMessage)
                          ELSE WindshieldError(NoImagesMessage))
    /\ (flow \in Handlers \cup {"direct"} /\ all_images = <<>>) => model_calls = 0
    /\ (flow = "direct" /\ pc = "done" /\ all_images = <<>>) =>
          ret = Return(Text("No images to process")) /\ request = None

\* a submission of loose files and an archive, none of which gives a page
C4_Witness ==
    /\ flow = "windshield" /\ pc = "done" /\ all_images = <<>>
    /\ individual_files # <<>>
    /\ zip_file # None /\ zip_file.readable /\ zip_file.entries # <<>>
    /\ ret.returned

\* C5: for every submission whose page-image sequence is not empty the
\* external model is invoked exactly once, never zero times and never twice,
\* whether the call succeeds or fails.
C5_ExactlyOneCall ==
    (flow \in Handlers /\ pc = "done" /\ all_images # <<>>) => model_calls = 1

\* the external model was called and the call failed
ApiFailed == model_calls > 0 /\ result \in {GeminiError(e) : e \in ApiErrors}

\* C6: when the call of the external model fails, process_documents_with_gemini
\* returns a text that tells the error instead of raising, and the handler
\* still returns a result to the UI.
C6_FailedCallGivesErrorText ==
    /\ (flow \in Handlers \cup {"direct"} /\ model_calls > 0 /\ pc \in {"log", "parse", "return", "done"}) =>
          result \in {GeminiError(e) : e \in ApiErrors} \cup Replies
    /\ (flow = "accident" /\ pc = "done" /\ ApiFailed) =>
          ret = Return(<<result, Gallery(all_images), Len(all_images)>>)
    /\ (flow = "windshield" /\ pc = "done" /\ ApiFailed) =>
          ret = Return(WindshieldError(Prefixed("Error parsing result: ", result)))
    /\ (flow = "direct" /\ pc = "done" /\ ApiFailed) => ret = Return(result)

\* the accident handler has returned after a failed call
C6_Witness ==
    /\ flow = "accident" /\ pc = "done" /\ ApiFailed
    /\ ret.returned /\ ret.value[1] = GeminiError("429 RESOURCE_EXHAUSTED")
    /\ webhook_posts # <<>>

\* an item with a supported name that cannot be loaded or rasterized
FailsToLoad(f) ==
    /\ IsImageName(f.name) \/ IsPdfName(f.name)
    /\ f.content \in {"garbage", "lazy_bad"}

\* the pages of an item in a submission that contains the failures
ContainedPages(src, f) == IF FailsToLoad(f) THEN <<>> ELSE PagesAlone(src, f)

ContainedLoosePages ==
    Flatten([i \in 1..Len(individual_files) |-> ContainedPages(<<"loose", i>>, individual_files[i])])

ContainedArchivePages ==
    IF zip_file = None \/ ~Extracted THEN <<>>
    ELSE Flatten([k \in 1..Len(walk_order) |->
                     ContainedPages(<<"zip", walk_order[k]>>, zip_file.entries[walk_order[k]])])

\* C7: when an item, loose or in the archive, fails to load or rasterize, only
\* the pages of that item are missing from the output; every other item gives
\* the pages it gives alone, in the same order, and the submission goes on.
C7_ItemFailureContained ==
    (flow \in Handlers /\ pc = "done") =>
        /\ all_images = ContainedLoosePages \o ContainedArchivePages
        /\ all_images # <<>> => model_calls = 1

\* the archive of the submission could not be opened or extracted
CorruptArchive == zip_file # None /\ ~Extracted

\* C8: a corrupt or unreadable archive is skipped: process_zip_file returns
\* no page and raises nothing, and the pages of the loose files of the
\* submission are all in the sequence sent to the model.
C8_CorruptArchiveSkipped ==
    (flow \in Handlers /\ CorruptArchive) =>
        /\ pc # "zip_walk"
        /\ zip_images = <<>>
        /\ pc \in {"check", "log", "parse", "return", "done"} => all_images = LoosePages
        /\ request # None => request.contents = [i \in 1..Len(LoosePages) |-> Part(LoosePages[i])]

\* the pages of two loose files were sent although a member of the archive
\* could not be extracted
C8_Witness ==
    /\ flow = "accident" /\ pc = "done" /\ CorruptArchive
    /\ zip_file.readable
    /\ Len(individual_files) = 2
    /\ request # None /\ Len(request.contents) = 1 + MaxPages

\* C9: after process_zip_file has returned, on whatever path, its temporary
\* extraction area and every file extracted into it no longer exist.
C9_TempDirReleased ==
    pc \notin {"zip_extract", "zip_walk", "zip_exit"} => temp_dir = NoTempDir

\* process_zip_file has returned after extractall raised on the second member
C9_Witness ==
    /\ pc = "zip_return"
    /\ Len(zip_file.entries) = 2
    /\ zip_file.entries[1].crc_ok /\ ~zip_file.entries[2].crc_ok
    /\ temp_dir = NoTempDir

\* C10: given a reply that is not valid JSON, the response normaliser raises
\* nothing and keeps the text: parse_and_format_json returns the text as it
\* is, no document and an empty validation summary; process_files_windshield
\* returns an error result whose message contains the text.
C10_UnparsedReplyKept ==
    /\ (flow = "format" /\ pc = "done" /\ (IsEmptyText(result) \/ JsonLoads(result).raised)) =>
          ret = Return(Formatted(result, <<>>, Text("")))
    /\ (flow = "windshield" /\ pc = "done" /\ result # None /\ JsonLoads(result).raised) =>
          /\ ret.returned
          /\ ret.value = WindshieldError(ret.value[1])
          /\ ret.value[1].parts = <<"Error parsing result: ">> \o result.parts

\* parse_and_format_json has returned for a reply in plain words
C10_Witness ==
    /\ flow = "format" /\ pc = "done"
    /\ result = Text("I cannot read these documents")
    /\ ret.returned /\ ret.value.complete = result /\ ret.value.documents = <<>>

-----------------------------------------------------------------------------
(* The windshield response normaliser *)

Sections == {"documentChecklist", "extractedData", "consistencyAnalysis"}

\* the handler has taken a reply that denotes a JSON object
ObjectReply == flow = "windshield" /\ parsed_result # None /\ IsDict(parsed_result)

\* the value of a section of the reply, an empty mapping when it is absent
SectionOrEmpty(doc, k) == IF HasKey(doc, k) THEN Item(doc, k) ELSE EmptyDict

AbsentOrMapping(doc, k) == ~HasKey(doc, k) \/ IsDict(Item(doc, k))

\* every section the reply has is a mapping, down to the damage location
WellFormedReply(doc) ==
    /\ \A k \in Sections : AbsentOrMapping(doc, k)
    /\ LET extracted == SectionOrEmpty(doc, "extractedData")
       IN  /\ AbsentOrMapping(extracted, "photographicEvidence")
           /\ AbsentOrMapping(SectionOrEmpty(extracted, "photographicEvidence"), "damageLocation")

\* the handler returned its error result
WindshieldFailed == ret.returned /\ ret.value = WindshieldError(ret.value[1])

\* the handler returned the rendered panels of the reply it took
WindshieldRendered ==
    /\ ret.returned
    /\ ~WindshieldFailed
    /\ ret.value[4] = JsonDumps(parsed_result)
    /\ ret.value[5] = Gallery(all_images)
    /\ ret.value[8] = result

\* C11: in the windshield workflow, for a reply that is a JSON object, each of
\* documentChecklist, extractedData and consistencyAnalysis is taken on its
\* own from the reply and is an empty mapping when the reply does not have
\* it; when the sections the reply does have are mappings the handler returns
\* the rendered result, with the panels of an empty mapping for the absent
\* sections, and not the error result.
C11_AbsentSectionsAreEmpty ==
    ObjectReply =>
        /\ ws # None =>
              /\ ws.document_checklist = SectionOrEmpty(parsed_result, "documentChecklist")
              /\ ws.extracted_data = SectionOrEmpty(parsed_result, "extractedData")
              /\ ws.consistency_analysis = SectionOrEmpty(parsed_result, "consistencyAnalysis")
        /\ (pc = "done" /\ WellFormedReply(parsed_result)) =>
              /\ WindshieldRendered
              /\ ~HasKey(parsed_result, "documentChecklist") =>
                     ret.value[1] = create_windshield_checklist_display(EmptyDict)
              /\ ~HasKey(parsed_result, "extractedData") =>
                     /\ ret.value[2] = Html("no extraction data", FALSE)
                     /\ ret.value[6] = None
                     /\ ret.value[9] = 0 /\ ret.value[10] = 0
              /\ ~HasKey(parsed_result, "consistencyAnalysis") =>
                     ret.value[3] = create_validation_display(EmptyDict)
              /\ ~ret.value[1].error /\ ~ret.value[2].error /\ ~ret.value[3].error

\* a reply with documentChecklist alone has been rendered
C11_Witness ==
    /\ ObjectReply /\ pc = "done"
    /\ HasKey(parsed_result, "documentChecklist")
    /\ IsDict(Item(parsed_result, "documentChecklist"))
    /\ ~HasKey(parsed_result, "extractedData")
    /\ ~HasKey(parsed_result, "consistencyAnalysis")
    /\ WindshieldRendered
    /\ ws.extracted_data = EmptyDict /\ ws.consistency_analysis = EmptyDict

\* the handler has finished with a reply that json.loads accepted
ParsedReplyDone ==
    /\ flow = "windshield" /\ pc = "done"
    /\ result # None
    /\ ~JsonLoads(result).raised

\* C12: for every model reply that parses as JSON, whatever its top-level
\* value and whatever the type of its sections, the windshield handler
\* returns the rendered panels and not the error result.
C12_ParsedReplyIsRendered == ParsedReplyDone => WindshieldRendered

\* the damage location of a well-formed reply, an empty mapping when absent
DamageLocationOf(doc) ==
    LET extracted == SectionOrEmpty(doc, "extractedData")
        evidence  == SectionOrEmpty(extracted, "photographicEvidence")
    IN  SectionOrEmpty(evidence, "damageLocation")

\* the handler has finished with a well-formed reply that names a damage box
DamageReplyDone ==
    /\ pc = "done" /\ ObjectReply /\ ret.returned
    /\ WellFormedReply(parsed_result)
    /\ HasKey(DamageLocationOf(parsed_result), "imageIndex")
    /\ HasKey(DamageLocationOf(parsed_result), "box_2d")

\* 0 <= index < n, for an index as Python reads it (true is 1, false is 0)
IndexInRange(index, n) ==
    \/ index.t = "number" /\ 0 <= index.n /\ index.n < n
    \/ index.t = "bool" /\ (IF index.b THEN 1 ELSE 0) < n

FourList(box) == box.t = "array" /\ Len(box.a) = 4

\* a rectangle has been drawn on the displayed image
Marked(shown) == shown # None /\ shown.rectangle # None

\* C16: in process_files_windshield a damage image is produced only when
\* 0 <= imageIndex < number of submitted page images; for every other
\* imageIndex, negative ones included, no damage image is produced and the
\* submission returns its rendered result.
C16_OverlayOnlyInRange ==
    DamageReplyDone =>
        LET index == Item(DamageLocationOf(parsed_result), "imageIndex")
        IN  IF IndexInRange(index, Len(all_images))
            THEN WindshieldRendered
            ELSE WindshieldRendered /\ ret.value[6] = None

\* C17: when box_2d does not have exactly four elements or imageIndex is out
\* of range, the overlay is skipped: no rectangle is drawn on any image and
\* the handler returns its rendered result.
C17_OverlaySkipped ==
    (/\ DamageReplyDone
     /\ \/ ~FourList(Item(DamageLocationOf(parsed_result), "box_2d"))
        \/ ~IndexInRange(Item(DamageLocationOf(parsed_result), "imageIndex"), Len(all_images)))
    => (WindshieldRendered /\ ~Marked(ret.value[6]))

-----------------------------------------------------------------------------
(* The logging side channel and the primary result *)

\* what the handler returns, from what it had computed before logging
PrimaryResult ==
    IF flow = "accident"
    THEN <<result, Gallery(all_images), Len(all_images)>>
    ELSE <<ws.checklist_html, ws.extraction_html, ws.validation_html,
           JsonDumps(parsed_result), Gallery(all_images), ws.damage_image,
           Len(all_images), result, ws.current_idx, ws.total_sections>>

\* C20: whether the logging POST succeeds, answers with a non-200 status or
\* raises (a timeout), process_files_accident and process_files_windshield
\* return the same primary result: what they computed from the model's reply
\* before the POST.
C20_LogFailureKeepsResult ==
    (flow \in Handlers /\ pc = "done" /\ webhook_posts # <<>>)
    => ret = Return(PrimaryResult)

\* a windshield submission whose logging POST timed out has returned
C20_Witness ==
    /\ flow = "windshield" /\ pc = "done"
    /\ Len(webhook_posts) = 1 /\ webhook_posts[1].outcome = "timeout"
    /\ ret = Return(PrimaryResult)
    /\ ~ret.value[1].error

-----------------------------------------------------------------------------
(* The accident response normaliser over object replies *)

\* parse_and_format_json has returned for a reply that denotes a JSON object
FormatObjectDone ==
    /\ flow = "format" /\ pc = "done" /\ ret.returned
    /\ ~IsEmptyText(result) /\ ~StartsWithError(result)
    /\ ~JsonLoads(result).raised
    /\ IsDict(JsonLoads(result).value)

\* the members of the reply other than the validation summary, in reply order
DocumentMembers == SelectSeq(JsonLoads(result).value.o, LAMBDA e : e.k # "validation_summary")

\* the validation summary as the claim states it
SummaryOfReply ==
    IF HasKey(JsonLoads(result).value, "validation_summary")
    THEN JsonDumps(Item(JsonLoads(result).value, "validation_summary"))
    ELSE Text("")

\* C13 as stated: for a reply that is an object parse_and_format_json returns
\* one document entry for every top-level key other than validation_summary,
\* and the validation_summary value when that key is present, an empty
\* summary otherwise.
C13_EveryKeyIsDocument ==
    FormatObjectDone =>
        /\ [i \in 1..Len(ret.value.documents) |-> ret.value.documents[i].key]
               = [i \in 1..Len(DocumentMembers) |-> DocumentMembers[i].k]
        /\ ret.value.validation_summary = SummaryOfReply

\* C13: for a reply that is an object parse_and_format_json returns one
\* document entry, in reply order, for every top-level key other than
\* validation_summary whose value is an object, and none for a key whose
\* value is not an object; it returns the validation_summary value when that
\* key is present and an empty summary otherwise, without an error.
C13_ObjectValuedKeysAreDocuments ==
    FormatObjectDone =>
        LET objects == SelectSeq(DocumentMembers, LAMBDA e : IsDict(e.v))
        IN  /\ ret.value.documents =
                   [i \in 1..Len(objects) |->
                       [key |-> objects[i].k,
                        type |-> identify_document_type(objects[i].v),
                        content |-> JsonDumps(objects[i].v)]]
            /\ ret.value.validation_summary = SummaryOfReply
            /\ ret.value.complete = JsonDumps(JsonLoads(result).value)

\* a reply with a document, a member that is not an object and a validation
\* summary has been split
C13_Witness ==
    /\ FormatObjectDone
    /\ HasKey(JsonLoads(result).value, "validation_summary")
    /\ \E i \in 1..Len(DocumentMembers) : ~IsDict(DocumentMembers[i].v)
    /\ Len(ret.value.documents) = 1
    /\ ret.value.documents[1].type = "Police Report (Form 1)"
    /\ ret.value.validation_summary # Text("")

-----------------------------------------------------------------------------
(* Document classification *)

IdentifyDone == flow = "identify" /\ pc = "done"

KeySet(doc) == {doc.o[i].k : i \in 1..Len(doc.o)}

\* one fixed order of the keys
KeyOrder ==
    <<"report_details", "damage_description", "vehicle_and_driver", "policy_summary",
      "issuing_company", "authorizing_officer", "involved_vehicles",
      "violation_description", "violator_information", "first_party", "report_header">>

\* the object that has the keys K in the fixed order, with other values
InKeyOrder(K) ==
    LET ks == SelectSeq(KeyOrder, LAMBDA k : k \in K)
    IN  JObj([i \in 1..Len(ks) |-> KV(ks[i], JNull)])

\* C14: identify_document_type depends only on the set of keys of the
\* object: an object gets the type of the object that has the same keys in
\* one fixed order, so all orderings of a key set get the same type.
C14_TypeDependsOnKeySetOnly ==
    IdentifyDone =>
        /\ ret.returned
        /\ ret.value = Text(identify_document_type(InKeyOrder(KeySet(parsed_result))))

\* a police report with its keys in the opposite order has been classified
C14_Witness ==
    /\ IdentifyDone
    /\ Len(parsed_result.o) = 3
    /\ parsed_result.o[1].k = "first_party" /\ parsed_result.o[3].k = "report_header"
    /\ ret = Return(Text("Police Report (Form 1)"))

\* the characteristic keys of the five types, in the order they are tried
Signatures ==
    << <<"report_header", "first_party", "Police Report (Form 1)">>,
       <<"violator_information", "violation_description", "Acceptance of Reconciliation (Form 2)">>,
       <<"involved_vehicles", "authorizing_officer", "Traffic Accident Notification (Form 3)">>,
       <<"issuing_company", "policy_summary", "Insurance Policy (Form 4)">>,
       <<"vehicle_and_driver", "damage_description", "Hit and Run Report (Form 5)">> >>

PairPresent(doc, i) == HasKey(doc, Signatures[i][1]) /\ HasKey(doc, Signatures[i][2])

\* C15: identify_document_type returns a known type exactly when both
\* characteristic keys of the type are present and no pair of an earlier type
\* is fully present; it returns the unknown type exactly when no pair is
\* fully present; it returns for every key set.
C15_TypeByFirstFullPair ==
    IdentifyDone =>
        /\ ret.returned
        /\ \A i \in 1..Len(Signatures) :
              (ret.value = Text(Signatures[i][3]))
              <=> (/\ PairPresent(parsed_result, i)
                   /\ \A j \in 1..(i - 1) : ~PairPresent(parsed_result, j))
        /\ (ret.value = Text("Unknown Document Type"))
              <=> (\A i \in 1..Len(Signatures) : ~PairPresent(parsed_result, i))

\* an object with the key pairs of two types got the earlier type
C15_Witness ==
    /\ IdentifyDone
    /\ PairPresent(parsed_result, 2) /\ PairPresent(parsed_result, 4)
    /\ ret = Return(Text("Acceptance of Reconciliation (Form 2)"))

-----------------------------------------------------------------------------
(* The damage rectangle *)

\* draw_bounding_box_on_image has returned for a box of four integers
DrawDone ==
    /\ flow = "draw" /\ pc = "done" /\ ret.returned
    /\ Len(parsed_result.a) = 4
    /\ \A i \in 1..4 : parsed_result.a[i].t = "number"
    /\ \A i \in 1..4 : 0 <= parsed_result.a[i].n /\ parsed_result.a[i].n <= 1000

\* C18: for a box [ymin, xmin, ymax, xmax] of integers in 0..1000 and an
\* image of width W and height H the rectangle drawn is
\* x1 = xmin*W/1000, y1 = ymin*H/1000, x2 = xmax*W/1000, y2 = ymax*H/1000,
\* each truncated to an integer, x scaled by W only and y by H only.
C18_RectangleIsScaledBox ==
    DrawDone =>
        LET W == all_images[1].size[1]
            H == all_images[1].size[2]
            box == parsed_result.a
        IN  ret.value = Shown(all_images[1],
                              [x1 |-> (box[2].n * W) \div 1000, y1 |-> (box[1].n * H) \div 1000,
                               x2 |-> (box[4].n * W) \div 1000, y2 |-> (box[3].n * H) \div 1000])

-----------------------------------------------------------------------------
(* Navigation *)

\* the sections present in the raw result the UI holds, 0 when it has none
SectionCount ==
    LET p == JsonLoads(result)
    IN  IF IsEmptyText(result) \/ p.raised THEN 0
        ELSE IF ~IsDict(p.value) THEN 0
        ELSE IF ~IsDict(SectionOrEmpty(p.value, "extractedData")) THEN 0
        ELSE Cardinality({i \in 1..Len(section_mapping) :
                             HasKey(SectionOrEmpty(p.value, "extractedData"), section_mapping[i])})

Clamp(i, lo, hi) == IF i < lo THEN lo ELSE IF i > hi THEN hi ELSE i

\* C19: with sectionCount >= 1 sections present, navigate_extraction_tiles
\* returns index clamp(current - 1, 0, sectionCount - 1) for "prev" and
\* clamp(current + 1, 0, sectionCount - 1) for "next", for any integer
\* current index; so after any sequence of requests the index is in
\* [0, sectionCount - 1], and the total returned is sectionCount.
C19_NavigationClamps ==
    (flow = "navigate" /\ ws # None /\ SectionCount >= 1) =>
        /\ ws.direction = "prev" =>
              ret.value.index = Clamp(ws.current_index - 1, 0, SectionCount - 1)
        /\ ws.direction = "next" =>
              ret.value.index = Clamp(ws.current_index + 1, 0, SectionCount - 1)
        /\ 0 <= ret.value.index /\ ret.value.index <= SectionCount - 1
        /\ ret.value.total = SectionCount
        /\ ~ret.value.html.error

\* "next" at the last of several sections has stayed at the last section
C19_Witness ==
    /\ flow = "navigate" /\ ws # None /\ SectionCount >= 2
    /\ ws.direction = "next"
    /\ ws.current_index = SectionCount - 1
    /\ ret.value.index = SectionCount - 1

-----------------------------------------------------------------------------
(* The logging side channel over whole submissions *)

\* what a log entry of the submission may carry: the parsed reply, or the
\* raw reply under "raw_result"
LoggedResult ==
    LET p == JsonLoads(result)
    IN  IF p.raised THEN JObj(<<KV("raw_result", result)>>) ELSE p.value

\* C21: every submission, in both workflows and whether the model call and
\* the JSON parse succeed or fail, makes exactly one logging POST attempt,
\* carrying the parsed result or the raw result; the POST is never repeated.
C21_OnePostPerSubmission ==
    (flow \in Handlers /\ pc = "done") =>
        /\ Len(webhook_posts) = 1
        /\ webhook_posts[1].flow_type = flow
        /\ webhook_posts[1].results = LoggedResult

-----------------------------------------------------------------------------
(* What the UI gets back *)

\* a call of navigate_extraction_tiles has returned: ws keeps its arguments
NavigateDone == flow = "navigate" /\ ws # None

\* C22: every failure mode (input error, empty input, external-model error,
\* non-JSON reply, response-shape error, logging error) still yields a
\* response: process_files_accident always returns three values,
\* process_files_windshield ten, navigate_extraction_tiles three, and none of
\* them raises.
C22_AlwaysRenderable ==
    /\ (flow = "accident" /\ pc = "done") => ret.returned /\ Len(ret.value) = 3
    /\ (flow = "windshield" /\ pc = "done") => ret.returned /\ Len(ret.value) = 10
    /\ NavigateDone => ret.returned /\ DOMAIN ret.value = {"html", "index", "total"}

\* the windshield handler has returned for a reply that parsed to a list
C22_Witness ==
    /\ flow = "windshield" /\ pc = "done"
    /\ parsed_result = JArr(<<>>)
    /\ ret.returned /\ Len(ret.value) = 10 /\ ret.value[5] = None

-----------------------------------------------------------------------------
(* Two submissions at the same time *)

\* the page sequences a submission of these files and this archive has when
\* it runs alone, one for each order in which the extracted files are walked
AlonePages(files, zip) ==
    LET loose == IF files # <<>> THEN process_uploaded_files(files) ELSE <<>>
    IN  IF zip = None THEN {loose}
        ELSE IF ~zip.readable \/ ExtractAll(zip).raised THEN {loose}
        ELSE {loose \o WalkFiles(zip, order, 1, <<>>) :
                 order \in WalkOrders(zip, ExtractAll(zip).value)}

\* what the handler of this kind returns for these pages and this reply
AloneResult(kind, images, text) ==
    IF kind = "accident" THEN <<text, Gallery(images), Len(images)>>
    ELSE LET j == JsonLoads(text)
             w == WindshieldRender(j.value, images)
         IN  IF j.raised THEN WindshieldError(Prefixed("Error parsing result: ", text))
             ELSE IF w.raised THEN WindshieldError(Prefixed("Error: ", Text(w.exc)))
             ELSE <<w.value.checklist_html, w.value.extraction_html, w.value.validation_html,
                    JsonDumps(j.value), Gallery(images), w.value.damage_image,
                    Len(images), text, w.value.current_idx, w.value.total_sections>>

\* the model request and the returned result of a submission of these pages
\* that runs alone, one for each outcome of the model call
AloneRuns(kind, images) ==
    IF images = <<>>
    THEN {[request |-> None,
           ret |-> Return(IF kind = "accident" THEN AccidentError(NoImagesMessage)
                          ELSE WindshieldError(NoImagesMessage))]}
    ELSE {LET r == process_documents_with_gemini(images, kind, api)
          IN  [request |-> r.request, ret |-> Return(AloneResult(kind, images, r.text))] :
             api \in ConcurrentOutcomes}

\* C23: for any interleaving of two simultaneous submissions, the page-image
\* sequence, the model request and the returned result of each submission
\* are those the submission produces when it runs alone: nothing one
\* submission writes (image list, temporary extraction area, parsed result)
\* is read or written by the other.
C23_SubmissionsIndependent ==
    \A p \in Procs :
        /\ pc[p] \in {"check", "log", "parse", "return", "done"} =>
              all_images[p] \in AlonePages(individual_files[p], zip_file[p])
        /\ pc[p] = "done" =>
              [request |-> request[p], ret |-> ret[p]] \in AloneRuns(flow[p], all_images[p])

\* one submission has the pages of its archive and is about to return while
\* the other is still inside its own temporary directory
C23_Witness ==
    /\ pc[1] = "return" /\ zip_file[1] # None /\ Len(all_images[1]) = 1 + MaxPages
    /\ request[1] # None
    /\ pc[2] = "zip_exit" /\ zip_file[2] # None /\ zip_images[2] # <<>>
    /\ temp_dir[TempDirOf(2)].exists

-----------------------------------------------------------------------------
(* The instruction template *)

\* the template the kind selects
TemplateOf(kind) ==
    IF kind = "windshield" THEN "WINDSHIELD_CLAIM_PROMPT" ELSE "MASTER_PROMPT"

\* C24: the instruction template sent with the model call is determined by
\* the workflow kind alone, the windshield template for the kind windshield
\* and the accident template for any other; process_files_accident always
\* calls with the kind accident and process_files_windshield with the kind
\* windshield, and the kind does not change while a submission runs.
C24_TemplateByKind ==
    /\ []((flow \in Handlers /\ request # None) =>
             request.system_instruction.template = TemplateOf(flow))
    /\ []((flow = "direct" /\ request # None) =>
             request.system_instruction.template = TemplateOf(ws.flow_type))
    /\ [][(flow \in Handlers /\ pc # "done") => flow' = flow]_vars

\* a windshield submission has sent its request
C24_Witness ==
    /\ flow = "windshield" /\ pc = "parse"
    /\ model_calls = 1
    /\ request.system_instruction.template = "WINDSHIELD_CLAIM_PROMPT"

-----------------------------------------------------------------------------
(* The presentation functions as functions *)

\* the windshield handler has rendered the panels of a parsed reply
PanelsRendered == flow = "windshield" /\ pc \in {"log", "return", "done"} /\ ws # None

\* C25: the presentation functions (draw_bounding_box_on_image,
\* create_windshield_checklist_display, create_extraction_tiles,
\* create_validation_display) never call the external model and leave their
\* inputs unchanged: after the damage overlay is drawn the page images of the
\* submission, those of the gallery, are still the unmarked images that were
\* loaded, the rectangle being drawn on a copy.
C25_PresentationIsPure ==
    /\ PanelsRendered =>
          /\ model_calls = 1
          /\ all_images = process_uploaded_files(individual_files)
          /\ parsed_result = JsonLoads(result).value
          /\ ws.extracted_data = DictGet(parsed_result, "extractedData", EmptyDict)
    /\ (PanelsRendered /\ pc = "done") =>
          /\ ret.value[5] = Gallery(process_uploaded_files(individual_files))
          /\ ret.value[8] = result
    /\ (flow = "draw" /\ pc = "done") =>
          /\ model_calls = 0
          /\ ret.value.image = all_images[1]
          /\ "rectangle" \notin DOMAIN all_images[1]

\* a submission of two page images has returned with a rectangle drawn on
\* the damage image, which shows the second page
C25_Witness ==
    /\ PanelsRendered /\ pc = "done"
    /\ Len(all_images) = 2
    /\ Marked(ret.value[6])
    /\ ret.value[6].image = all_images[2]
    /\ ret.value[5] = Gallery(all_images)

-----------------------------------------------------------------------------
(* The logging POST in time *)

\* the logging POST of the submission has been sent and has neither been
\* answered nor failed nor timed out
PostInFlight ==
    /\ flow \in Handlers
    /\ webhook_posts # <<>>
    /\ webhook_posts[Len(webhook_posts)].outcome = "in flight"

\* C26: the logging call does not block the rest of the system: the handler
\* can return its primary result to the caller while the logging POST is
\* still in flight, without waiting for it to complete or to time out.
C26_ReturnDoesNotWaitForPost ==
    PostInFlight => ENABLED (AccidentReturn \/ WindshieldReturn)

-----------------------------------------------------------------------------
(* The paginated sections *)

\* the fixed, named sequence of sections
PaginatedOrder ==
    <<"civilId", "driversLicense", "vehicleRegistration", "repairOrder", "photographicEvidence">>

\* extractedData of the raw result the UI holds, when it is an object
HeldExtractedData == SectionOrEmpty(JsonLoads(result).value, "extractedData")

NavigatedObject ==
    /\ NavigateDone
    /\ ~IsEmptyText(result) /\ ~JsonLoads(result).raised /\ IsDict(JsonLoads(result).value)
    /\ IsDict(HeldExtractedData)

\* the section count of line 978
CountedSections(extracted_data) ==
    Cardinality({i \in 1..Len(PaginatedOrder) : Contains(extracted_data, PaginatedOrder[i]).value})

\* C27: the paginated sections are exactly those of civilId, driversLicense,
\* vehicleRegistration, repairOrder, photographicEvidence that are present in
\* extractedData, always in that order whatever the order of the keys in the
\* reply; no other key of extractedData is a section; and the section count
\* navigate_extraction_tiles uses is the total create_extraction_tiles
\* returns for the same data.
C27_SectionsInFixedOrder ==
    NavigatedObject =>
        LET expected == SelectSeq(PaginatedOrder, LAMBDA k : HasKey(HeldExtractedData, k))
        IN  /\ ret.value.total = Len(expected)
            /\ CountedSections(HeldExtractedData) = ret.value.total
            /\ \A i \in 1..Len(expected) :
                  LET tile == create_extraction_tiles(HeldExtractedData, i - 1)
                  IN  /\ tile.html.section = expected[i]
                      /\ tile.index = i - 1
                      /\ tile.total = Len(expected)
            /\ expected # <<>> => ret.value.html.section = expected[ret.value.index + 1]

\* the reply has photographicEvidence, a key that is no section, and civilId,
\* in this order; "prev" from the second section shows civilId, the first
C27_Witness ==
    /\ NavigatedObject
    /\ HeldExtractedData = JObj(<<KV("photographicEvidence", EmptyDict),
                                  KV("policyDetails", EmptyDict), KV("civilId", EmptyDict)>>)
    /\ ws.direction = "prev" /\ ws.current_index = 1
    /\ ret.value = Tiles([panel |-> "extraction", error |-> FALSE, section |-> "civilId"], 0, 2)

-----------------------------------------------------------------------------
(* The date in the windshield template *)

\* C28: the current date in the windshield instruction template is computed
\* once, when the process starts: every windshield submission of the process
\* sends the same date text, the date of the first day, also when it is made
\* on a later day.
C28_PromptDateIsStartUpDate ==
    /\ []((flow = "windshield" /\ request # None) =>
             /\ request.system_instruction.current_date = 1
             /\ request.system_instruction.current_date = current_date)
    /\ [][current_date' = current_date]_vars

\* a windshield submission made on the second day has sent its request
C28_Witness ==
    /\ flow = "windshield" /\ pc = "parse" /\ model_calls = 1
    /\ today = 2
    /\ request.system_instruction =
          [template |-> "WINDSHIELD_CLAIM_PROMPT", current_date |-> 1]

-----------------------------------------------------------------------------
(* The five document formats and their types *)

SchemaKeys(n) == {DocumentSchemas[n][i] : i \in 1..Len(DocumentSchemas[n])}

PairOf(n) == {Signatures[n][1], Signatures[n][2]}

\* C29: an object that has exactly the top-level keys of one of the five
\* document formats of the accident instruction template is classified by
\* identify_document_type as the type of that format: the five characteristic
\* key pairs tell the five formats apart, no format having both keys of the
\* pair of another type.
C29_SchemasClassifiedAsThemselves ==
    /\ \A n \in 1..Len(DocumentSchemas) :
          (IdentifyDone /\ KeySet(parsed_result) = SchemaKeys(n)) =>
              ret = Return(Text(Signatures[n][3]))
    /\ \A n, j \in 1..Len(DocumentSchemas) :
          PairOf(j) \subseteq SchemaKeys(n) <=> j = n

\* a document in the fifth format, which shares authorizing_officer with the
\* third, has been classified
C29_Witness ==
    /\ IdentifyDone
    /\ KeySet(parsed_result) = SchemaKeys(5)
    /\ "authorizing_officer" \in KeySet(parsed_result)
    /\ ret = Return(Text("Hit and Run Report (Form 5)"))

-----------------------------------------------------------------------------
(* Archive pages and the files they were opened from *)

\* the pages of the submission that come from files of the archive
ArchivePages == {i \in 1..Len(all_images) : all_images[i].src[1] = "zip"}

\* C30: within one submission the temporary extraction area is released
\* before process_zip_file returns, so every page image that comes from the
\* archive is encoded for the model request, and drawn on for the overlay,
\* only after the file it was opened from has been deleted: nothing is
\* encoded, sent or rendered while an extracted file still exists.
C30_EncodedAfterRelease ==
    /\ (flow \in Handlers /\ pc \in {"zip_return", "check", "log", "parse", "return", "done"}) =>
          ~temp_dir.exists /\ temp_dir.files = {}
    /\ (flow \in Handlers /\ temp_dir.exists) =>
          /\ all_images = process_uploaded_files(individual_files)
          /\ model_calls = 0 /\ request = None /\ result = None /\ ws = None
    /\ (flow \in Handlers /\ request # None) =>
          /\ Len(request.contents) = Len(all_images)
          /\ \A i \in ArchivePages : request.contents[i] = Part(all_images[i])
          /\ ~temp_dir.exists

\* a windshield submission of an archive alone has returned: its first page
\* was opened from an extracted image file, encoded and drawn on
C30_Witness ==
    /\ flow = "windshield" /\ pc = "done"
    /\ individual_files = <<>>
    /\ 1 \in ArchivePages /\ all_images[1].page = 0 /\ all_images[1].on_disk
    /\ request.contents[1] = Part(all_images[1])
    /\ Marked(ret.value[6]) /\ ret.value[6].image = all_images[1]
    /\ ~temp_dir.exists

====
